---- MODULE Spec2Model ----
(***************************************************************************)
(* A model of the consensus-mvp node: the DAG of signed blocks, the        *)
(* conflict watcher, the in-memory network and the node's step loop and    *)
(* message handlers.                                                       *)
(*                                                                         *)
(* Conventions.                                                            *)
(*  - A hash is modelled by the content it is the hash of (SHA-256 taken   *)
(*    to be injective): the hash of a block is the unsigned block record.  *)
(*  - A signature is modelled by the key that made it: verifying under key *)
(*    k succeeds iff the block was signed with k.                          *)
(*  - A python dict is a sequence of [k, v] entries in insertion order.    *)
(*  - The network is synchronous: a broadcast calls the receivers'         *)
(*    handlers before it returns, so every operator below threads the      *)
(*    whole system state s = [nodes, net, exc, ...] through the calls.     *)
(*  - An uncaught python exception sets s.exc; every later statement of    *)
(*    the call stack is skipped and the assignments made so far remain.    *)
(*  - Payments and the UTXO set are not modelled.                          *)
(***************************************************************************)
EXTENDS Integers, Sequences, FiniteSets, TLC

VARIABLES nodes, net, now, exc, validators, hist

vars == <<nodes, net, now, exc, validators, hist>>

\* ------------------------------------------------------------------------
\* Program constants
\* ------------------------------------------------------------------------
BLOCK_TIME == 5

\* chain.dag.Epoch: the rounds of an era of the dag and their durations
COMMIT == 0
REVEAL == 1
PARTIAL == 2
COMMIT_DURATION == 2
REVEAL_DURATION == 2
PARTIAL_DURATION == 2

ROUND_DURATION == 2

GenesisTime == 1

\* ------------------------------------------------------------------------
\* Bounds of the model
\* ------------------------------------------------------------------------
\* number of nodes registered in the network (ids and public keys 0..NumNodes-1)
NumNodes == 2

\* the clock is not advanced beyond this timeslot
MaxTimeslot == 2

\* number of blocks an outside peer may hand to the handlers
MaxInjected == 1

\* number of blocks with a missing parent a relaying peer may hand over
MaxOrphans == 2

\* the clock of a validator running alone is not advanced beyond this timeslot
MaxSoloTimeslot == 14

\* the calls of accept_tops_as_epoch_hashes counted for a node
MaxAccepts == 2

\* the clock of the dag queried for its eras is not advanced beyond this timeslot
MaxEraTimeslot == 20

NodeIds == 0 .. (NumNodes - 1)

\* a key no validator owns (an outside signer)
OutsiderKey == NumNodes

NoKey == 0 - 1

\* ------------------------------------------------------------------------
\* Sequences and dicts
\* ------------------------------------------------------------------------
Range(q) == {q[i] : i \in DOMAIN q}

DictKeys(d) == {d[i].k : i \in DOMAIN d}

DictHas(d, key) == \E i \in DOMAIN d : d[i].k = key

DictGet(d, key) == d[CHOOSE i \in DOMAIN d : d[i].k = key].v

DictSet(d, key, val) ==
    IF DictHas(d, key)
    THEN [i \in DOMAIN d |-> IF d[i].k = key THEN [k |-> key, v |-> val] ELSE d[i]]
    ELSE Append(d, [k |-> key, v |-> val])

DictKeyList(d) == [i \in DOMAIN d |-> d[i].k]

\* ------------------------------------------------------------------------
\* Blocks
\* ------------------------------------------------------------------------
Block(ts, prevs, txs) == [timestamp |-> ts, prev_hashes |-> prevs, system_txs |-> txs]

SignedBlock(b, key) == [block |-> b, sig |-> key]

get_hash(b) == b

verify_signature(sb, key) == sb.sig = key

\* the genesis block: no parents, the genesis timestamp, unsigned
genesis_block == Block(GenesisTime, <<>>, <<>>)

NoBlock == Block(0 - 1, <<>>, <<>>)

\* a faulty add_signed_block: the new block replaces the blocks of its timeslot
add_signed_block_replacing(dag, index, sb) ==
    [blocks_by_hash |-> DictSet(dag.blocks_by_hash, get_hash(sb.block), sb),
     blocks_by_number |-> DictSet(dag.blocks_by_number, index, <<sb>>)]

\* ------------------------------------------------------------------------
\* Dag
\* ------------------------------------------------------------------------
\* Dag.add_signed_block: blocks_by_hash[hash] = block; append under the index
add_signed_block(dag, index, sb) ==
    [blocks_by_hash |-> DictSet(dag.blocks_by_hash, get_hash(sb.block), sb),
     blocks_by_number |->
        IF DictHas(dag.blocks_by_number, index)
        THEN DictSet(dag.blocks_by_number, index,
                     Append(DictGet(dag.blocks_by_number, index), sb))
        ELSE DictSet(dag.blocks_by_number, index, <<sb>>)]

\* Dag.__init__: both indices empty, then the unsigned genesis under number 0
NewDag ==
    add_signed_block([blocks_by_hash |-> <<>>, blocks_by_number |-> <<>>], 0,
                     SignedBlock(genesis_block, NoKey))

\* a faulty lookup: no timeslot is found filled
has_block_number_never(dag, number) == FALSE

\* Dag.has_block_number
has_block_number(dag, number) == DictHas(dag.blocks_by_number, number)

InDag(dag, h) == DictHas(dag.blocks_by_hash, h)

RECURSIVE DagLinks(_, _)
\* Dag.get_top_blocks, the first loop: links += signed_block.block.prev_hashes
\* for the stored blocks from the i-th on, in dict order
DagLinks(blocks_by_hash, i) ==
    IF i > Len(blocks_by_hash) THEN <<>>
    ELSE blocks_by_hash[i].v.block.prev_hashes \o DagLinks(blocks_by_hash, i + 1)

\* del d[key]
DictDel(d, key) ==
    LET Other(e) == e.k # key
    IN  SelectSeq(d, Other)

RECURSIVE DelLinked(_, _, _)
\* Dag.get_top_blocks, the second loop: every link found in top_blocks is
\* deleted from it
DelLinked(top_blocks, links, i) ==
    IF i > Len(links) THEN top_blocks
    ELSE DelLinked(IF DictHas(top_blocks, links[i]) THEN DictDel(top_blocks, links[i])
                   ELSE top_blocks,
                   links, i + 1)

\* a faulty get_top_blocks: only the first parent of a block counts as linked
get_top_blocks_main_links(dag) ==
    LET d == dag.blocks_by_hash
        main == {d[i].v.block.prev_hashes[1] : i \in {j \in DOMAIN d : d[j].v.block.prev_hashes # <<>>}}
        NotLinked(e) == e.k \notin main
    IN  SelectSeq(d, NotLinked)

\* Dag.get_top_blocks: a copy of blocks_by_hash without the linked blocks
get_top_blocks(dag) ==
    DelLinked(dag.blocks_by_hash, DagLinks(dag.blocks_by_hash, 1), 1)

get_top_blocks_hashes(dag) == DictKeyList(get_top_blocks(dag))

\* the timeslot a stored hash is indexed under (the first that lists it)
get_block_number(dag, h) ==
    LET d == dag.blocks_by_number
        Holds(i) == \E j \in DOMAIN d[i].v : get_hash(d[i].v[j].block) = h
    IN  IF \E i \in DOMAIN d : Holds(i)
        THEN d[CHOOSE i \in DOMAIN d : Holds(i) /\ \A i2 \in DOMAIN d : Holds(i2) => i <= i2].k
        ELSE 0 - 1

SetMax(S) == CHOOSE x \in S : \A y \in S : y <= x

RECURSIVE ChainLength(_, _)
\* number of blocks on the longest ancestor chain of h inside the dag
ChainLength(dag, h) ==
    IF ~InDag(dag, h) THEN 0
    ELSE LET ps == Range(DictGet(dag.blocks_by_hash, h).block.prev_hashes)
         IN  IF ps = {} THEN 1
             ELSE 1 + SetMax({ChainLength(dag, p) : p \in ps})

\* Dag.get_longest_chain_top: the deepest top; a tie is broken by a fixed
\* order on hashes (here: the fixed choice CHOOSE makes among the tied tops)
get_longest_chain_top(dag, tops) ==
    LET best == SetMax({ChainLength(dag, tops[i]) : i \in DOMAIN tops})
    IN  CHOOSE h \in Range(tops) : ChainLength(dag, h) = best

RECURSIVE IsAncestorOrSelf(_, _, _)
\* a is h or reachable from h over parent links stored in the dag
IsAncestorOrSelf(dag, a, h) ==
    \/ a = h
    \/ /\ InDag(dag, h)
       /\ \E p \in Range(DictGet(dag.blocks_by_hash, h).block.prev_hashes) :
              IsAncestorOrSelf(dag, a, p)

\* Dag.get_branches_for_timeslot_range: one hash per branch whose head lies in
\* [low, high): the blocks of the range no block of the range links to
get_branches_for_timeslot_range(dag, low, high) ==
    LET d == dag.blocks_by_number
        inRange == UNION {{get_hash(d[i].v[j].block) : j \in DOMAIN d[i].v} :
                            i \in {x \in DOMAIN d : d[x].k >= low /\ d[x].k < high}}
        linked == UNION {Range(h.prev_hashes) : h \in inRange}
        IsHead(e) == e.k \in inRange /\ e.k \notin linked
    IN  DictKeyList(SelectSeq(dag.blocks_by_hash, IsHead))

\* ------------------------------------------------------------------------
\* ConflictWatcher
\* ------------------------------------------------------------------------
NewConflictWatcher == [blocks |-> <<>>, pubkeys_by_epochs |-> <<>>]

\* ConflictWatcher.on_new_block_by_validator
on_new_block_by_validator(cw, block_hash, epoch_number, public_key) ==
    LET key == [e |-> epoch_number, p |-> public_key]
    IN  [blocks |-> DictSet(cw.blocks, block_hash, key),
         pubkeys_by_epochs |->
            IF DictHas(cw.pubkeys_by_epochs, key)
            THEN DictSet(cw.pubkeys_by_epochs, key,
                         Append(DictGet(cw.pubkeys_by_epochs, key), block_hash))
            ELSE DictSet(cw.pubkeys_by_epochs, key, <<block_hash>>)]

\* ConflictWatcher.get_conflicts_by_pubkey: None (here <<>>) for a single entry
get_conflicts_by_pubkey(cw, pubkey, epoch_number) ==
    LET conflicts == DictGet(cw.pubkeys_by_epochs, [e |-> epoch_number, p |-> pubkey])
    IN  IF Len(conflicts) = 1 THEN <<>> ELSE conflicts

\* a faulty get_conflicts_by_block: the hash asked about is left out
get_conflicts_by_block_others(cw, block_hash) ==
    LET key == DictGet(cw.blocks, block_hash)
        Other(h) == h # block_hash
    IN  SelectSeq(get_conflicts_by_pubkey(cw, key.p, key.e), Other)

\* ConflictWatcher.get_conflicts_by_block
get_conflicts_by_block(cw, block_hash) ==
    LET key == DictGet(cw.blocks, block_hash)
    IN  get_conflicts_by_pubkey(cw, key.p, key.e)

RECURSIVE MergeBlocks(_, _, _)
\* find_conflicts_in_between, the first loop: the hashes stored under the
\* timeslots from i to latest, timeslot by timeslot
MergeBlocks(dag, i, latest) ==
    IF i > latest THEN <<>>
    ELSE LET blocks == DictGet(dag.blocks_by_number, i)
         IN  [j \in DOMAIN blocks |-> get_hash(blocks[j].block)]
                \o MergeBlocks(dag, i + 1, latest)

\* find_conflicts_in_between, the loop over the conflicts of one block: those
\* stored inside the window, and whether one lies before it
InsideMerge(dag, conflicts, low, high) ==
    LET Inside(c) == low <= get_block_number(dag, c) /\ get_block_number(dag, c) <= high
    IN  [inside_merge_conflicts |-> SelectSeq(conflicts, Inside),
         resolved_earlier |-> \E i \in DOMAIN conflicts :
                                 get_block_number(dag, conflicts[i]) < low]

RECURSIVE ScanMerge(_, _, _, _, _, _, _)
\* find_conflicts_in_between, the second loop, from the i-th merge block on
ScanMerge(cw, dag, all_merge_blocks, i, low, high, found) ==
    IF i > Len(all_merge_blocks) THEN found
    ELSE IF ~DictHas(cw.blocks, all_merge_blocks[i]) THEN [found EXCEPT !.exc = "KeyError"]
    ELSE LET conflicts == get_conflicts_by_block(cw, all_merge_blocks[i])
             r == InsideMerge(dag, conflicts, low, high)
         IN  ScanMerge(cw, dag, all_merge_blocks, i + 1, low, high,
                IF conflicts = <<>> THEN found
                ELSE IF r.resolved_earlier
                THEN [found EXCEPT !.explicit_conflicts = @ \o r.inside_merge_conflicts]
                ELSE [found EXCEPT !.candidate_conflicts =
                                       Append(@, r.inside_merge_conflicts)])

\* ConflictWatcher.find_conflicts_in_between: explicit_conflicts,
\* candidate_conflicts, and the KeyError of a lookup that fails
find_conflicts_in_between(cw, dag, tops, common_ancestor) ==
    LET low == get_block_number(dag, common_ancestor)
        high == SetMax({get_block_number(dag, tops[i]) : i \in DOMAIN tops})
        none == [exc |-> "none", explicit_conflicts |-> <<>>, candidate_conflicts |-> <<>>]
    IN  IF \E i \in low .. high : ~has_block_number(dag, i)
        THEN [none EXCEPT !.exc = "KeyError"]
        ELSE ScanMerge(cw, dag, MergeBlocks(dag, low, high), 1, low, high, none)

\* ------------------------------------------------------------------------
\* Epoch arithmetic
\* ------------------------------------------------------------------------
Rounds == <<"PUBLIC", "SECRETSHARE", "COMMIT", "REVEAL", "PRIVATE", "FINAL">>

\* an era holds six rounds of ROUND_DURATION timeslots
get_duration == 6 * ROUND_DURATION

get_block_number_from_timestamp(ts) == (ts - GenesisTime) \div BLOCK_TIME

get_current_timeframe_block_number(time) == get_block_number_from_timestamp(time)

\* genesis is the last timeslot of era 0, era 1 begins at timeslot 1
get_epoch_number(n) == IF n = 0 THEN 0 ELSE ((n - 1) \div get_duration) + 1

convert_to_epoch_block_number(n) == (n - 1) % get_duration

get_epoch_start_block_number(e) == (e - 1) * get_duration + 1

get_epoch_end_block_number(e) == e * get_duration

get_round_by_block_number(n) ==
    Rounds[(convert_to_epoch_block_number(n) \div ROUND_DURATION) + 1]

is_new_epoch_upcoming(n) == convert_to_epoch_block_number(n) = 0

\* the era the node is in; a node starts in era 1
current_epoch(time) ==
    LET e == get_epoch_number(get_current_timeframe_block_number(time))
    IN  IF e = 0 THEN 1 ELSE e

\* ------------------------------------------------------------------------
\* Epoch hashes
\* ------------------------------------------------------------------------
RECURSIVE find_epoch_hash_for_block(_, _, _)
\* Epoch.find_epoch_hash_for_block: walk the ancestors (main link first) down to
\* a hash snapshotted as an epoch hash; genesis governs itself
find_epoch_hash_for_block(snapshot, dag, h) ==
    IF DictHas(snapshot, h) THEN DictGet(snapshot, h)
    ELSE IF ~InDag(dag, h) THEN NoBlock
    ELSE LET ps == DictGet(dag.blocks_by_hash, h).block.prev_hashes
         IN  IF ps = <<>> THEN h
             ELSE find_epoch_hash_for_block(snapshot, dag, ps[1])

\* Epoch.accept_tops_as_epoch_hashes: the current tops become the epoch hashes
accept_tops_as_epoch_hashes(node) ==
    LET tops == get_top_blocks_hashes(node.dag)
    IN  [node EXCEPT !.epoch_hashes = [i \in DOMAIN tops |-> [k |-> tops[i], v |-> tops[i]]]]

\* Epoch.get_epoch_hashes: top hash -> the epoch hash governing its fork
get_epoch_hashes(node) ==
    LET tops == get_top_blocks_hashes(node.dag)
        all == [i \in DOMAIN tops |->
                  [k |-> tops[i],
                   v |-> find_epoch_hash_for_block(node.epoch_hashes, node.dag, tops[i])]]
        Governed(e) == e.v # NoBlock
    IN  SelectSeq(all, Governed)

\* ------------------------------------------------------------------------
\* Permissions (the validator registry with its fixed orders, as the tests set it)
\* ------------------------------------------------------------------------
\* Permissions.get_sign_permission: the one key allowed to sign the timeslot
get_sign_permission(vals, epoch_hash, epoch_block_number) ==
    vals.signers_order[epoch_block_number]

\* Permissions.get_gossip_permission: the keys allowed to gossip about the timeslot
get_gossip_permission(vals, epoch_hash, epoch_block_number) == vals.gossipers

\* Permissions.get_ordered_randomizers_pubkeys_for_round: the committee of a round
get_ordered_randomizers_pubkeys_for_round(vals, epoch_hash, round) ==
    LET r == CHOOSE i \in DOMAIN Rounds : Rounds[i] = round
    IN  [j \in 1 .. ROUND_DURATION |->
            vals.randomizers_order[(r - 1) * ROUND_DURATION + j - 1]]

get_secret_sharers_pubkeys(vals, epoch_hash) ==
    Range(get_ordered_randomizers_pubkeys_for_round(vals, epoch_hash, "SECRETSHARE"))

get_commiters_pubkeys(vals, epoch_hash) ==
    Range(get_ordered_randomizers_pubkeys_for_round(vals, epoch_hash, "COMMIT"))

\* ------------------------------------------------------------------------
\* Transactions
\* ------------------------------------------------------------------------
NegativeGossipTransaction(pubkey, ts, number) ==
    [kind |-> "NegativeGossip", pubkey |-> pubkey, timestamp |-> ts,
     number_of_block |-> number]

PositiveGossipTransaction(pubkey, ts, block_hash) ==
    [kind |-> "PositiveGossip", pubkey |-> pubkey, timestamp |-> ts,
     block_hash |-> block_hash]

PenaltyGossipTransaction(conflict, pubkey) ==
    [kind |-> "PenaltyGossip", pubkey |-> pubkey, conflicts |-> conflict]

PublicKeyTransaction(generated, epoch_hash, pubkey) ==
    [kind |-> "PublicKey", pubkey |-> pubkey, generated_pubkey |-> generated,
     epoch_hash |-> epoch_hash]

SplitRandomTransaction(epoch_hash, pubkey) ==
    [kind |-> "SplitRandom", pubkey |-> pubkey, epoch_hash |-> epoch_hash]

CommitRandomTransaction(key, epoch_hash, pubkey) ==
    [kind |-> "CommitRandom", pubkey |-> pubkey, rand_key |-> key,
     epoch_hash |-> epoch_hash]

RevealRandomTransaction(commit, key) ==
    [kind |-> "RevealRandom", commit_hash |-> commit, key |-> key]

PrivateKeyTransaction(key) == [kind |-> "PrivateKey", key |-> key]

GossipKinds == {"NegativeGossip", "PositiveGossip", "PenaltyGossip"}

\* the kinds of systemic transaction legal in a round
KindsOfRound(round) ==
    CASE round = "PUBLIC" -> {"PublicKey"}
      [] round = "SECRETSHARE" -> {"SplitRandom"}
      [] round = "COMMIT" -> {"CommitRandom"}
      [] round = "REVEAL" -> {"RevealRandom"}
      [] round = "PRIVATE" -> {"PrivateKey", "Penalty"}
      [] OTHER -> {}

\* ------------------------------------------------------------------------
\* Mempool
\* ------------------------------------------------------------------------
NewMempool == [systemic |-> <<>>, gossips |-> <<>>]

\* Mempool.append_gossip_tx
append_gossip_tx(mp, tx) == [mp EXCEPT !.gossips = Append(@, tx)]

\* Mempool.add_transaction: a gossip goes to the gossips, the rest to the
\* systemic transactions; adding a transaction twice is adding it once
add_transaction(mp, tx) ==
    IF tx.kind \in GossipKinds
    THEN IF tx \in Range(mp.gossips) THEN mp ELSE [mp EXCEPT !.gossips = Append(@, tx)]
    ELSE IF tx \in Range(mp.systemic) THEN mp ELSE [mp EXCEPT !.systemic = Append(@, tx)]

\* Mempool.pop_round_system_transactions: the transactions legal in the round
round_system_transactions(mp, round) ==
    LET Legal(tx) == tx.kind \in KindsOfRound(round)
    IN  SelectSeq(mp.systemic, Legal)

after_pop_round_system_transactions(mp, round) ==
    LET Other(tx) == tx.kind \notin KindsOfRound(round)
    IN  [mp EXCEPT !.systemic = SelectSeq(@, Other)]

\* Mempool.remove_all_systemic_transactions
remove_all_systemic_transactions(mp) == [mp EXCEPT !.systemic = <<>>]

\* Mempool.remove_transactions: drop the transactions a block included
remove_transactions(mp, txs) ==
    LET Kept(tx) == tx \notin Range(txs)
    IN  [systemic |-> SelectSeq(mp.systemic, Kept), gossips |-> SelectSeq(mp.gossips, Kept)]

get_all_negative_gossips(mp) ==
    LET Neg(tx) == tx.kind = "NegativeGossip"
    IN  SelectSeq(mp.gossips, Neg)

get_negative_gossips_by_block(mp, number) ==
    LET Neg(tx) == tx.kind = "NegativeGossip" /\ tx.number_of_block = number
    IN  SelectSeq(mp.gossips, Neg)

get_positive_gossips_by_block_hash(mp, h) ==
    LET Pos(tx) == tx.kind = "PositiveGossip" /\ tx.block_hash = h
    IN  SelectSeq(mp.gossips, Pos)

\* MempoolTransactionsAcceptor.check_if_valid: the author is a validator and
\* has no systemic transaction of this kind in the mempool yet
mempool_check_if_valid(node, tx) ==
    IF tx.kind \in GossipKinds THEN tx.pubkey \in NodeIds
    ELSE IF tx.kind \in {"RevealRandom", "PrivateKey"} THEN TRUE
    ELSE /\ tx.pubkey \in NodeIds
         /\ ~\E i \in DOMAIN node.mempool.systemic :
               /\ node.mempool.systemic[i].kind = tx.kind
               /\ node.mempool.systemic[i] # tx
               /\ node.mempool.systemic[i].kind \notin {"RevealRandom", "PrivateKey"}
               /\ node.mempool.systemic[i].pubkey = tx.pubkey
               /\ node.mempool.systemic[i].epoch_hash = tx.epoch_hash

\* ------------------------------------------------------------------------
\* Node
\* ------------------------------------------------------------------------
\* Behaviour(): the flags of the model; every other flag of Behaviour stays at
\* its honest default
HonestBehaviour ==
    [transport_node_disable_input |-> FALSE,
     transport_node_disable_output |-> FALSE,
     transport_keep_offline |-> <<>>,
     transport_cancel_block_broadcast |-> FALSE,
     malicious_excessive_block_count |-> 0,
     malicious_skip_block |-> FALSE]

IsHonest(beh) ==
    /\ ~beh.transport_cancel_block_broadcast
    /\ beh.malicious_excessive_block_count = 0
    /\ ~beh.malicious_skip_block

\* Node.__init__
NewNode(id, beh) ==
    [node_id |-> id,
     node_pubkey |-> id,
     dag |-> NewDag,
     epoch_hashes |-> <<[k |-> get_hash(genesis_block), v |-> get_hash(genesis_block)]>>,
     mempool |-> NewMempool,
     conflict_watcher |-> NewConflictWatcher,
     behaviour |-> beh,
     epoch_private_keys |-> <<>>,
     keys_generated |-> 0,
     reveals_to_send |-> <<>>,
     sent_shares_epochs |-> <<>>,
     last_expected_timeslot |-> 0,
     last_signed_block_number |-> 0,
     tried_to_sign_current_block |-> FALSE,
     blocks_buffer |-> <<>>]

\* Private.generate(): a key nobody generated before
FreshKey(node) == [owner |-> node.node_id, serial |-> node.keys_generated + 1]

\* ------------------------------------------------------------------------
\* The system state threaded through the synchronous calls
\* ------------------------------------------------------------------------
NoExc == "none"

Raise(s, e) == [s EXCEPT !.exc = e]

SetNode(s, id, node) == [s EXCEPT !.nodes[id] = node]

RECURSIVE ForEach(_, _, _, _)
\* a for loop: Body applied to every element of lst from the i-th on
ForEach(Body(_, _), s, lst, i) ==
    IF i > Len(lst) THEN s ELSE ForEach(Body, Body(s, lst[i]), lst, i + 1)

FirstMatch(sb, signers) ==
    IF \E i \in DOMAIN signers : verify_signature(sb, signers[i])
    THEN signers[CHOOSE i \in DOMAIN signers :
                    /\ verify_signature(sb, signers[i])
                    /\ \A j \in DOMAIN signers : verify_signature(sb, signers[j]) => i <= j]
    ELSE NoKey

\* the string 'block_out_of_epoch' handed on in place of a public key
BlockOutOfEpoch == 0 - 2

\* ------------------------------------------------------------------------
\* Verifiers
\* ------------------------------------------------------------------------
\* a faulty BlockAcceptor: the parents are not looked up
block_check_if_valid_without_parents(node, block) == TRUE

\* BlockAcceptor.check_if_valid(block): the parents exist and the block's
\* timeslot is not yet filled along its fork (every parent lies in an earlier
\* timeslot); it is handed the unsigned block and checks no signature
block_check_if_valid(node, block) ==
    \A p \in Range(block.prev_hashes) :
        /\ InDag(node.dag, p)
        /\ get_block_number(node.dag, p) < get_block_number_from_timestamp(block.timestamp)

\* OrphanBlockAcceptor.check_if_valid(block): the block is not buffered already
orphan_check_if_valid(node, block) ==
    \A i \in DOMAIN node.blocks_buffer : get_hash(node.blocks_buffer[i].block) # get_hash(block)

\* ------------------------------------------------------------------------
\* Node: allowed signers and insertion
\* ------------------------------------------------------------------------
\* Node.get_allowed_signers_for_block_number, before its assertion
allowed_signers_list(node, vals, block_number) ==
    LET prev_epoch_number == get_epoch_number(block_number) - 1
        prev_epoch_start == get_epoch_start_block_number(prev_epoch_number)
        prev_epoch_end == get_epoch_end_block_number(prev_epoch_number)
        epoch_hashes ==
            IF prev_epoch_number = 0 THEN <<get_hash(genesis_block)>>
            ELSE get_branches_for_timeslot_range(node.dag, prev_epoch_start, prev_epoch_end + 1)
    IN  [i \in DOMAIN epoch_hashes |->
            get_sign_permission(vals, epoch_hashes[i],
                                convert_to_epoch_block_number(block_number))]

\* Node.insert_verified_block
insert_verified_block(s, me, sb, allowed_pubkey) ==
    LET node == s.nodes[me]
        block_number == get_block_number_from_timestamp(sb.block.timestamp)
        epoch_number == get_epoch_number(block_number)
        node1 == [node EXCEPT
                    !.dag = add_signed_block(@, block_number, sb),
                    !.mempool = remove_transactions(@, sb.block.system_txs),
                    !.conflict_watcher =
                        on_new_block_by_validator(@, get_hash(sb.block), epoch_number,
                                                  allowed_pubkey)]
    IN  [SetNode(s, me, node1) EXCEPT
            !.hist.inserted = Append(@, [node |-> me, sb |-> sb, allowed |-> allowed_pubkey,
                                         now |-> s.now,
                                         permitted |-> Range(allowed_signers_list(
                                                                node, s.vals, block_number)),
                                         missing |-> {p \in Range(sb.block.prev_hashes) :
                                                        ~InDag(node.dag, p)}])]

\* ------------------------------------------------------------------------
\* Network
\* ------------------------------------------------------------------------
\* Network.check_node_input_transport_behaviour
check_node_input_transport_behaviour(s, receiver_node_id) ==
    \E i \in DOMAIN s.net.nodes :
        /\ s.net.nodes[i] = receiver_node_id
        /\ s.nodes[receiver_node_id].behaviour.transport_node_disable_input

\* a faulty network: the sender's output flag is not looked at
check_node_output_transport_behaviour_ignored(s, sender_node_id) == FALSE

\* Network.check_node_output_transport_behaviour
check_node_output_transport_behaviour(s, sender_node_id) ==
    \E i \in DOMAIN s.net.nodes :
        /\ s.net.nodes[i] = sender_node_id
        /\ s.nodes[sender_node_id].behaviour.transport_node_disable_output

RECURSIVE HeldSound(_, _, _)
\* the receiver holds h, or the sender holds it as a block whose parents lie in
\* earlier timeslots and are held the same way
HeldSound(sender_dag, receiver_dag, h) ==
    \/ InDag(receiver_dag, h)
    \/ /\ InDag(sender_dag, h)
       /\ \A p \in Range(h.prev_hashes) :
              /\ get_block_number_from_timestamp(p.timestamp)
                     < get_block_number_from_timestamp(h.timestamp)
              /\ HeldSound(sender_dag, receiver_dag, p)

RECURSIVE handle_block_message(_, _, _, _)
RECURSIVE handle_transaction_message(_, _, _, _)
RECURSIVE process_block_buffer(_, _)
RECURSIVE BroadcastBlockLoop(_, _, _, _, _)
RECURSIVE BroadcastTransactionLoop(_, _, _, _, _)
RECURSIVE DirectResponseLoop(_, _, _, _, _, _)
RECURSIVE DirectRequestLoop(_, _, _, _, _, _)
RECURSIVE GetBlockLoop(_, _, _, _, _)

\* a broadcast is logged as it is asked for, with the sender's output and the
\* nodes whose input is enabled at that moment
Broadcast(s, sender_node_id, msg) ==
    [s EXCEPT !.hist.broadcasts =
        Append(@, [from |-> sender_node_id, msg |-> msg,
                   number |-> get_current_timeframe_block_number(s.now),
                   output |-> ~check_node_output_transport_behaviour(s, sender_node_id),
                   inputs |-> {n \in Range(s.net.nodes) :
                                  ~check_node_input_transport_behaviour(s, n)}])]

\* a message is logged as the network hands it to a node's handler
Delivered(s, sender_node_id, receiver_node_id, msg) ==
    [s EXCEPT !.hist.delivered =
        Append(@, [from |-> sender_node_id, to |-> receiver_node_id, msg |-> msg])]

\* Network.broadcast_block, the loop over self.nodes
BroadcastBlockLoop(s, lst, i, sender_node_id, sb) ==
    IF s.exc # NoExc \/ i > Len(lst) THEN s
    ELSE IF check_node_input_transport_behaviour(s, lst[i]) THEN s
    ELSE BroadcastBlockLoop(
            IF lst[i] # sender_node_id
            THEN handle_block_message(Delivered(s, sender_node_id, lst[i], sb),
                                      lst[i], sender_node_id, sb)
            ELSE s,
            lst, i + 1, sender_node_id, sb)

\* Network.broadcast_block
broadcast_block(s, sender_node_id, sb) ==
    IF s.exc # NoExc THEN s
    ELSE IF check_node_output_transport_behaviour(s, sender_node_id)
    THEN Broadcast(s, sender_node_id, sb)
    ELSE BroadcastBlockLoop(Broadcast(s, sender_node_id, sb), s.net.nodes, 1,
                            sender_node_id, sb)

\* Network.broadcast_transaction, the loop over self.nodes
BroadcastTransactionLoop(s, lst, i, sender_node_id, tx) ==
    IF s.exc # NoExc \/ i > Len(lst) THEN s
    ELSE IF check_node_input_transport_behaviour(s, lst[i]) THEN s
    ELSE BroadcastTransactionLoop(
            IF lst[i] # sender_node_id
            THEN handle_transaction_message(Delivered(s, sender_node_id, lst[i], tx),
                                            lst[i], sender_node_id, tx)
            ELSE s,
            lst, i + 1, sender_node_id, tx)

\* Network.broadcast_transaction
broadcast_transaction(s, sender_node_id, tx) ==
    IF s.exc # NoExc THEN s
    ELSE IF check_node_output_transport_behaviour(s, sender_node_id)
    THEN Broadcast(s, sender_node_id, tx)
    ELSE BroadcastTransactionLoop(Broadcast(s, sender_node_id, tx), s.net.nodes, 1,
                                  sender_node_id, tx)

\* Network.direct_response_block_by_hash, the loop over self.nodes
DirectResponseLoop(s, lst, i, sender_node_id, receiver_node_id, sb) ==
    IF s.exc # NoExc \/ i > Len(lst) THEN s
    ELSE IF check_node_input_transport_behaviour(s, receiver_node_id) THEN s
    ELSE DirectResponseLoop(
            IF lst[i] = receiver_node_id
            THEN handle_block_message(s, lst[i], sender_node_id, sb) ELSE s,
            lst, i + 1, sender_node_id, receiver_node_id, sb)

\* a faulty test: every listed parent is asked for
should_request_parent_always(node, prev_hash) == TRUE

\* Node.handle_block_message: a listed parent is asked for when the dag lacks it
should_request_parent(node, prev_hash) == ~InDag(node.dag, prev_hash)

\* a faulty network: the response is not delivered
direct_response_block_by_hash_lost(s, sender_node_id, receiver_node_id, sb) == s

\* Network.direct_response_block_by_hash
direct_response_block_by_hash(s, sender_node_id, receiver_node_id, sb) ==
    IF s.exc # NoExc THEN s
    ELSE IF check_node_output_transport_behaviour(s, sender_node_id) THEN s
    ELSE DirectResponseLoop(s, s.net.nodes, 1, sender_node_id, receiver_node_id, sb)

\* Node.direct_request_block_by_hash: answer the requester directly
node_direct_request_block_by_hash(s, me, sender_node, block_hash) ==
    IF s.exc # NoExc THEN s
    ELSE IF ~InDag(s.nodes[me].dag, block_hash) THEN Raise(s, "KeyError")
    ELSE direct_response_block_by_hash(s, me, sender_node,
                                       DictGet(s.nodes[me].dag.blocks_by_hash, block_hash))

\* Network.direct_request_block_by_hash, the loop over self.nodes
DirectRequestLoop(s, lst, i, sender_node_id, receiver_node_id, block_hash) ==
    IF s.exc # NoExc \/ i > Len(lst) THEN s
    ELSE IF check_node_input_transport_behaviour(s, receiver_node_id) THEN s
    ELSE DirectRequestLoop(
            IF lst[i] = receiver_node_id
            THEN node_direct_request_block_by_hash(s, lst[i], sender_node_id, block_hash)
            ELSE s,
            lst, i + 1, sender_node_id, receiver_node_id, block_hash)

\* Network.direct_request_block_by_hash
direct_request_block_by_hash(s, sender_node_id, receiver_node_id, block_hash) ==
    IF s.exc # NoExc THEN s
    ELSE IF check_node_output_transport_behaviour(s, sender_node_id) THEN s
    ELSE DirectRequestLoop(s, s.net.nodes, 1, sender_node_id, receiver_node_id, block_hash)

\* Node.request_block_by_hash: answer by a broadcast of the block
request_block_by_hash(s, me, block_hash) ==
    IF s.exc # NoExc THEN s
    ELSE IF ~InDag(s.nodes[me].dag, block_hash) THEN Raise(s, "KeyError")
    ELSE broadcast_block(s, me, DictGet(s.nodes[me].dag.blocks_by_hash, block_hash))

\* a call of Network.get_block_by_hash is logged
Fetched(s, sender_node_id, receiver_node_id, block_hash) ==
    [s EXCEPT !.hist.fetched =
        Append(@, [from |-> sender_node_id, to |-> receiver_node_id, hash |-> block_hash])]

\* Network.get_block_by_hash, the loop over self.nodes
GetBlockLoop(s, lst, i, receiver_node_id, block_hash) ==
    IF s.exc # NoExc \/ i > Len(lst) THEN s
    ELSE IF check_node_input_transport_behaviour(s, receiver_node_id) THEN s
    ELSE GetBlockLoop(
            IF lst[i] = receiver_node_id
            THEN request_block_by_hash(s, lst[i], block_hash) ELSE s,
            lst, i + 1, receiver_node_id, block_hash)

\* Network.get_block_by_hash
get_block_by_hash(s, sender_node_id, receiver_node_id, block_hash) ==
    IF s.exc # NoExc THEN s
    ELSE IF check_node_output_transport_behaviour(s, sender_node_id)
    THEN Fetched(s, sender_node_id, receiver_node_id, block_hash)
    ELSE GetBlockLoop(Fetched(s, sender_node_id, receiver_node_id, block_hash),
                      s.net.nodes, 1, receiver_node_id, block_hash)

\* ------------------------------------------------------------------------
\* Node: handlers
\* ------------------------------------------------------------------------
\* the calls of Epoch.accept_tops_as_epoch_hashes a node makes are counted (up
\* to MaxAccepts), with the nodes that made one while handling a block
AcceptLogged(s, me, block_number, on_block) ==
    IF ~is_new_epoch_upcoming(block_number) THEN s
    ELSE [s EXCEPT !.hist.accepted[me] = IF @ < MaxAccepts THEN @ + 1 ELSE @,
                   !.hist.accepted_on_block =
                       IF on_block THEN @ \cup {me} ELSE @]

\* Node.process_block_buffer: pop every buffered block, verify it, insert it
\* when it passes
process_block_buffer(s, me) ==
    IF s.exc # NoExc THEN s
    ELSE IF Len(s.nodes[me].blocks_buffer) = 0 THEN s
    ELSE
      LET node == s.nodes[me]
          block_from_buffer == node.blocks_buffer[Len(node.blocks_buffer)]
          block_number == get_block_number_from_timestamp(block_from_buffer.block.timestamp)
          popped == [node EXCEPT !.blocks_buffer = SubSeq(@, 1, Len(@) - 1)]
          node1 == IF is_new_epoch_upcoming(block_number)
                   THEN accept_tops_as_epoch_hashes(popped) ELSE popped
          allowed_signers == allowed_signers_list(node1, s.vals, block_number)
          allowed_pubkey == FirstMatch(block_from_buffer, allowed_signers)
          s1 == SetNode(AcceptLogged(s, me, block_number, TRUE), me, node1)
      IN  IF Len(allowed_signers) = 0 THEN Raise(s1, "AssertionError")
          ELSE process_block_buffer(
                 IF allowed_pubkey # NoKey /\ block_check_if_valid(node1, block_from_buffer.block)
                 THEN insert_verified_block(s1, me, block_from_buffer, allowed_pubkey)
                 ELSE s1,
                 me)

\* Node.handle_block_message
handle_block_message(s, me, node_id, signed_block) ==
    IF s.exc # NoExc THEN s
    ELSE
      LET node == s.nodes[me]
          block_number == get_block_number_from_timestamp(signed_block.block.timestamp)
          is_orphan_block ==
              \E p \in Range(signed_block.block.prev_hashes) : ~InDag(node.dag, p)
          epoch_end_block == get_epoch_end_block_number(current_epoch(s.now))
          block_out_of_epoch == block_number >= epoch_end_block
          allowed_signers == allowed_signers_list(node, s.vals, block_number)
          allowed_pubkey == IF block_out_of_epoch THEN BlockOutOfEpoch
                            ELSE FirstMatch(signed_block, allowed_signers)
          \* the request for one parent, made when it is still missing
          AskParent(s0, prev_hash) ==
              IF s0.exc # NoExc \/ ~should_request_parent(s0.nodes[me], prev_hash) THEN s0
              ELSE direct_request_block_by_hash(
                      [s0 EXCEPT !.hist.requests =
                          Append(@, [from |-> me, to |-> node_id, hash |-> prev_hash])],
                      me, node_id, prev_hash)
      IN  IF ~block_out_of_epoch /\ Len(allowed_signers) = 0
          THEN Raise(s, "AssertionError")
          ELSE IF allowed_pubkey = NoKey THEN s
          ELSE IF ~is_orphan_block
          THEN LET node1 == IF is_new_epoch_upcoming(block_number)
                            THEN accept_tops_as_epoch_hashes(node) ELSE node
                   s1 == SetNode(AcceptLogged(s, me, block_number, TRUE), me, node1)
               IN  IF block_check_if_valid(node1, signed_block.block)
                   THEN insert_verified_block(s1, me, signed_block, allowed_pubkey)
                   ELSE s1
          ELSE LET s1 == IF orphan_check_if_valid(node, signed_block.block)
                         THEN ForEach(AskParent,
                                 [SetNode(s, me, [node EXCEPT !.blocks_buffer =
                                                     Append(@, signed_block)])
                                    EXCEPT !.hist.buffered =
                                       Append(@, [node |-> me, sender |-> node_id,
                                                  sb |-> signed_block, now |-> s.now,
                                                  permitted |-> Range(allowed_signers),
                                                  sender_holds |->
                                                     \A p \in Range(signed_block.block.prev_hashes) :
                                                        HeldSound(s.nodes[node_id].dag, node.dag, p),
                                                  transport_ok |->
                                                     \A i \in {me, node_id} :
                                                        /\ ~check_node_input_transport_behaviour(s, i)
                                                        /\ ~check_node_output_transport_behaviour(s, i),
                                                  missing |-> {p \in Range(signed_block.block.prev_hashes) :
                                                                  ~InDag(node.dag, p)}])],
                                 signed_block.block.prev_hashes, 1)
                         ELSE s
               IN  process_block_buffer(s1, me)

\* Node.broadcast_gossip_positive
broadcast_gossip_positive(s, me, signed_block_hash) ==
    LET tx == PositiveGossipTransaction(s.nodes[me].node_pubkey, s.now, signed_block_hash)
        s1 == [s EXCEPT !.nodes[me].mempool = append_gossip_tx(@, tx),
                        !.hist.positive = Append(@, [node |-> me, tx |-> tx])]
    IN  broadcast_transaction(s1, me, tx)

\* the nodes other than the one that asks that hold block_hash in state s
Holders(s, me, block_hash) ==
    {n \in DOMAIN s.nodes \ {me} : InDag(s.nodes[n].dag, block_hash)}

\* a valid positive gossip handled by node me is logged: s1 is the state the
\* branch for positive gossips starts in, s2 the state it ends in
Cited(s1, s2, me, node_id, transaction) ==
    [s2 EXCEPT !.hist.cited =
        Append(@, [node |-> me, sender |-> node_id, hash |-> transaction.block_hash,
                   held |-> InDag(s1.nodes[me].dag, transaction.block_hash),
                   parents_known |->
                      \A p \in Range(transaction.block_hash.prev_hashes) :
                         InDag(s1.nodes[me].dag, p),
                   transport_ok |->
                      \A i \in {me, node_id} :
                         /\ ~check_node_input_transport_behaviour(s1, i)
                         /\ ~check_node_output_transport_behaviour(s1, i),
                   fetched_before |-> Len(s1.hist.fetched),
                   fetched_after |-> Len(s2.hist.fetched),
                   holders |-> Holders(s1, me, transaction.block_hash),
                   changed |-> {n \in Holders(s1, me, transaction.block_hash) :
                                   s2.nodes[n] # s1.nodes[n]},
                   raised |-> s2.exc # NoExc])]

\* Node.handle_transaction_message
handle_transaction_message(s, me, node_id, transaction) ==
    IF s.exc # NoExc THEN s
    ELSE IF ~mempool_check_if_valid(s.nodes[me], transaction) THEN s
    ELSE
      LET s1 == [s EXCEPT !.nodes[me].mempool = add_transaction(@, transaction)]
          node == s1.nodes[me]
      IN  IF transaction.kind = "NegativeGossip"
          THEN LET current_gossips ==
                       get_negative_gossips_by_block(node.mempool, transaction.number_of_block)
               IN  IF \E i \in DOMAIN current_gossips :
                          current_gossips[i].pubkey = node.node_pubkey
                   THEN s1
                   ELSE IF has_block_number(node.dag, transaction.number_of_block)
                   THEN broadcast_gossip_positive(s1, me,
                           get_hash(DictGet(node.dag.blocks_by_number,
                                            transaction.number_of_block)[1].block))
                   ELSE s1
          ELSE IF transaction.kind = "PositiveGossip"
          THEN Cited(s1,
                     IF ~InDag(node.dag, transaction.block_hash)
                     THEN get_block_by_hash(s1, me, node_id, transaction.block_hash)
                     ELSE s1,
                     me, node_id, transaction)
          ELSE s1

\* ------------------------------------------------------------------------
\* Node: round emission
\* ------------------------------------------------------------------------
\* Node.try_to_publish_public_key
try_to_publish_public_key(s, me) ==
    IF Len(s.nodes[me].epoch_private_keys) > 0 THEN s
    ELSE
      LET epoch_hashes == get_epoch_hashes(s.nodes[me])
          Publish(s0, entry) ==
              IF s0.exc # NoExc THEN s0
              ELSE IF s0.nodes[me].node_pubkey \notin
                        Range(get_ordered_randomizers_pubkeys_for_round(s0.vals, entry.v, "PUBLIC"))
              THEN s0
              ELSE LET node == s0.nodes[me]
                       generated_private == FreshKey(node)
                       tx == PublicKeyTransaction(generated_private, entry.v, node.node_pubkey)
                       node1 == [node EXCEPT
                                   !.keys_generated = @ + 1,
                                   !.epoch_private_keys = Append(@, generated_private),
                                   !.mempool = add_transaction(@, tx)]
                   IN  broadcast_transaction(
                          [SetNode(s0, me, node1) EXCEPT
                              !.hist.published =
                                  Append(@, [node |-> me, tx |-> tx,
                                             number |-> get_current_timeframe_block_number(s0.now)])],
                          me, tx)
      IN  ForEach(Publish, s, epoch_hashes, 1)

\* Node.try_to_share_random
try_to_share_random(s, me) ==
    LET epoch_hashes == get_epoch_hashes(s.nodes[me])
        Share(s0, entry) ==
            IF s0.exc # NoExc THEN s0
            ELSE IF entry.v \in Range(s0.nodes[me].sent_shares_epochs) THEN s0
            ELSE IF s0.nodes[me].node_pubkey \notin get_secret_sharers_pubkeys(s0.vals, entry.v)
            THEN s0
            ELSE LET node == s0.nodes[me]
                     split_random == SplitRandomTransaction(entry.v, node.node_pubkey)
                     node1 == [node EXCEPT
                                 !.sent_shares_epochs = Append(@, entry.v),
                                 !.mempool = add_transaction(@, split_random)]
                 IN  broadcast_transaction(SetNode(s0, me, node1), me, split_random)
    IN  ForEach(Share, s, epoch_hashes, 1)

\* TransactionFactory.create_commit_reveal_pair
create_commit_reveal_pair(node, epoch_hash) ==
    LET private == FreshKey(node)
        commit == CommitRandomTransaction(private, epoch_hash, node.node_pubkey)
    IN  [commit |-> commit, reveal |-> RevealRandomTransaction(commit, private)]

\* Node.try_to_commit_random
try_to_commit_random(s, me) ==
    LET epoch_hashes == get_epoch_hashes(s.nodes[me])
        Commit(s0, entry) ==
            IF s0.exc # NoExc THEN s0
            ELSE IF DictHas(s0.nodes[me].reveals_to_send, entry.v) THEN s0
            ELSE IF s0.nodes[me].node_pubkey \notin get_commiters_pubkeys(s0.vals, entry.v)
            THEN s0
            ELSE LET node == s0.nodes[me]
                     pair == create_commit_reveal_pair(node, entry.v)
                     node1 == [node EXCEPT
                                 !.keys_generated = @ + 1,
                                 !.reveals_to_send = DictSet(@, entry.v, pair.reveal),
                                 !.mempool = add_transaction(@, pair.commit)]
                 IN  broadcast_transaction(SetNode(s0, me, node1), me, pair.commit)
    IN  ForEach(Commit, s, epoch_hashes, 1)

\* a node that keeps its pending reveals after broadcasting them
try_to_reveal_random_kept(s, me) ==
    LET Reveal(s0, entry) ==
            IF s0.exc # NoExc THEN s0
            ELSE broadcast_transaction(
                    [s0 EXCEPT !.nodes[me].mempool = add_transaction(@, entry.v)],
                    me, entry.v)
    IN  ForEach(Reveal, s, s.nodes[me].reveals_to_send, 1)

\* Node.try_to_reveal_random
try_to_reveal_random(s, me) ==
    LET Reveal(s0, entry) ==
            IF s0.exc # NoExc THEN s0
            ELSE LET s1 == broadcast_transaction(
                              [s0 EXCEPT !.nodes[me].mempool = add_transaction(@, entry.v)],
                              me, entry.v)
                     NotIt(e) == e.k # entry.k
                 IN  IF s1.exc # NoExc THEN s1
                     ELSE [s1 EXCEPT !.nodes[me].reveals_to_send = SelectSeq(@, NotIt)]
    IN  ForEach(Reveal, s, s.nodes[me].reveals_to_send, 1)

\* Node.step, the emission of the current round
RoundEmission(s, me, current_round) ==
    CASE current_round = "PUBLIC" -> try_to_publish_public_key(s, me)
      [] current_round = "SECRETSHARE" -> try_to_share_random(s, me)
      [] current_round = "COMMIT" -> try_to_commit_random(s, me)
      [] current_round = "REVEAL" -> try_to_reveal_random(s, me)
      [] current_round = "FINAL" ->
            [s EXCEPT !.nodes[me].mempool = remove_all_systemic_transactions(@)]
      [] OTHER -> s

\* ------------------------------------------------------------------------
\* Node: signing
\* ------------------------------------------------------------------------
RECURSIVE Flatten(_)
\* the concatenation of a sequence of sequences
Flatten(qs) == IF qs = <<>> THEN <<>> ELSE Head(qs) \o Flatten(Tail(qs))

\* Node.validate_gossip: the [positive, negative] pairs of one author about a
\* block the dag holds
validate_gossip(dag, mempool) ==
    LET mem_negative_gossips == get_all_negative_gossips(mempool)
        ForBlock(negative, sb) ==
            LET Same(positive) == positive.pubkey = negative.pubkey
                mine == SelectSeq(
                          get_positive_gossips_by_block_hash(mempool, get_hash(sb.block)), Same)
            IN  [i \in DOMAIN mine |-> <<mine[i], negative>>]
        ForNegative(negative) ==
            IF has_block_number(dag, negative.number_of_block)
            THEN LET blocks_by_negative == DictGet(dag.blocks_by_number, negative.number_of_block)
                 IN  Flatten([i \in DOMAIN blocks_by_negative |->
                                 ForBlock(negative, blocks_by_negative[i])])
            ELSE <<>>
    IN  Flatten([i \in DOMAIN mem_negative_gossips |-> ForNegative(mem_negative_gossips[i])])

\* InBlockTransactionsAcceptor.check_if_valid
in_block_check_if_valid(node, tx) == TRUE

\* a faulty get_system_transactions_for_signing: the private key is disclosed
\* and stays with the node
get_system_transactions_for_signing_key_kept(node, round) ==
    LET Valid(tx) == in_block_check_if_valid(node, tx)
        system_txs == SelectSeq(round_system_transactions(node.mempool, round), Valid)
        mempool1 == after_pop_round_system_transactions(node.mempool, round)
        conflicts_gossip == validate_gossip(node.dag, mempool1)
        gossip_mempool_txs == mempool1.gossips
        mempool2 == [mempool1 EXCEPT !.gossips = <<>>]
        reveal_key == round = "PRIVATE" /\ Len(node.epoch_private_keys) > 0
        key_reveal_tx == IF reveal_key
                         THEN <<PrivateKeyTransaction(node.epoch_private_keys[1])>> ELSE <<>>
        penalties == [i \in DOMAIN conflicts_gossip |->
                         PenaltyGossipTransaction(conflicts_gossip[i], node.node_pubkey)]
    IN  [txs |-> system_txs \o gossip_mempool_txs \o key_reveal_tx \o penalties,
         node |-> [node EXCEPT !.mempool = mempool2]]

\* Node.get_system_transactions_for_signing: the transactions of the block to
\* sign, and the node with its mempool and private keys popped
get_system_transactions_for_signing(node, round) ==
    LET Valid(tx) == in_block_check_if_valid(node, tx)
        system_txs == SelectSeq(round_system_transactions(node.mempool, round), Valid)
        mempool1 == after_pop_round_system_transactions(node.mempool, round)
        conflicts_gossip == validate_gossip(node.dag, mempool1)
        gossip_mempool_txs == mempool1.gossips
        mempool2 == [mempool1 EXCEPT !.gossips = <<>>]
        reveal_key == round = "PRIVATE" /\ Len(node.epoch_private_keys) > 0
        key_reveal_tx == IF reveal_key
                         THEN <<PrivateKeyTransaction(node.epoch_private_keys[1])>> ELSE <<>>
        penalties == [i \in DOMAIN conflicts_gossip |->
                         PenaltyGossipTransaction(conflicts_gossip[i], node.node_pubkey)]
    IN  [txs |-> system_txs \o gossip_mempool_txs \o key_reveal_tx \o penalties,
         node |-> [node EXCEPT
                     !.mempool = mempool2,
                     !.epoch_private_keys = IF reveal_key THEN Tail(@) ELSE @]]

\* a faulty choice of links: the chosen top alone
current_top_blocks_chosen_only(chosen_top, tops) == <<chosen_top>>

\* Node.sign_block: the links of the new block, the chosen top first
current_top_blocks(chosen_top, tops) ==
    LET NotChosen(top) == top # chosen_top
        conflicting_tops == SelectSeq(tops, NotChosen)
    IN  <<chosen_top>> \o conflicting_tops

\* a faulty test: the additional block is made whatever the behaviour
wants_excessive_block_always(behaviour) == TRUE

\* Node.sign_block, the test of behaviour.malicious_excessive_block_count
wants_excessive_block(behaviour) == behaviour.malicious_excessive_block_count > 0

\* the entry the history keeps of a block node me signed: the block, the dag,
\* the mempool and the conflict watcher it was signed over, and the tops right afterwards
Signed(s, me, current_block_number, sb, before, after) ==
    [node |-> me, number |-> current_block_number, sb |-> sb,
     honest |-> IsHonest(before.behaviour) /\ me \notin s.hist.misbehaved,
     dag |-> before.dag,
     mempool |-> before.mempool,
     watched |-> before.conflict_watcher,
     tops_after |-> get_top_blocks_hashes(after.dag),
     keys |-> before.epoch_private_keys,
     keys_after |-> after.epoch_private_keys]

\* Node.sign_block: the signed block goes into the dag and to the conflict watcher
StoreSigned(node, current_block_number, signed_block) ==
    [node EXCEPT
        !.dag = add_signed_block(@, current_block_number, signed_block),
        !.conflict_watcher =
            on_new_block_by_validator(@, get_hash(signed_block.block),
                                      get_epoch_number(current_block_number),
                                      node.node_pubkey)]

\* Node.sign_block, after the additional block was broadcast: one excessive
\* block less to make
sign_block_excess_done(s4, me) ==
    IF s4.exc # NoExc THEN s4
    ELSE [s4 EXCEPT !.nodes[me].behaviour.malicious_excessive_block_count =
                        IF @ > 0 THEN @ - 1 ELSE @]

\* Node.sign_block, the additional block of a malicious signer: the same links
\* and transactions, the timestamp one later
sign_block_excess(s2, me, current_block_number, signed_add_block) ==
    sign_block_excess_done(
        broadcast_block(
            [SetNode(s2, me, StoreSigned(s2.nodes[me], current_block_number,
                                         signed_add_block)) EXCEPT
                !.hist.signed =
                    Append(@, Signed(s2, me, current_block_number, signed_add_block,
                                     s2.nodes[me],
                                     StoreSigned(s2.nodes[me], current_block_number,
                                                 signed_add_block))),
                !.hist.misbehaved = @ \cup {me}],
            me, signed_add_block),
        me)

\* Node.sign_block, after the broadcast of the signed block
sign_block_sent(s2, me, current_block_number, block) ==
    IF s2.exc # NoExc THEN s2
    ELSE IF ~wants_excessive_block(s2.nodes[me].behaviour) THEN s2
    ELSE sign_block_excess(s2, me, current_block_number,
                           SignedBlock(Block(block.timestamp + 1, block.prev_hashes,
                                             block.system_txs),
                                       s2.nodes[me].node_pubkey))

\* Node.sign_block, the broadcast of the signed block
sign_block_send(s1, me, current_block_number, signed_block) ==
    sign_block_sent(IF ~s1.nodes[me].behaviour.transport_cancel_block_broadcast
                    THEN broadcast_block(s1, me, signed_block) ELSE s1,
                    me, current_block_number, signed_block.block)

\* Node.sign_block, the signed block stored: node is the signer before the
\* call, popped the signer with its mempool and private keys popped
sign_block_store(s, me, current_block_number, node, popped, signed_block) ==
    sign_block_send(
        [SetNode(s, me, StoreSigned(popped, current_block_number, signed_block)) EXCEPT
            !.hist.signed =
                Append(@, Signed(s, me, current_block_number, signed_block, node,
                                 StoreSigned(popped, current_block_number, signed_block)))],
        me, current_block_number, signed_block)

\* Node.sign_block, the block over the tops of the dag
sign_block_make(s, me, current_block_number, st, tops) ==
    sign_block_store(s, me, current_block_number, s.nodes[me], st.node,
                     SignedBlock(Block(s.now,
                                       current_top_blocks(
                                           get_longest_chain_top(s.nodes[me].dag, tops),
                                           tops),
                                       st.txs),
                                 s.nodes[me].node_pubkey))

\* Node.sign_block
sign_block(s, me, current_block_number) ==
    sign_block_make(s, me, current_block_number,
                    get_system_transactions_for_signing(
                        s.nodes[me], get_round_by_block_number(current_block_number)),
                    get_top_blocks_hashes(s.nodes[me].dag))

\* Node.try_to_sign_block
try_to_sign_block(s, me, current_block_number) ==
    LET node == s.nodes[me]
        epoch_block_number == convert_to_epoch_block_number(current_block_number)
        epoch_hashes == get_epoch_hashes(node)
        allowed_to_sign ==
            \E i \in DOMAIN epoch_hashes :
                get_sign_permission(s.vals, epoch_hashes[i].v, epoch_block_number)
                    = node.node_pubkey
    IN  IF ~allowed_to_sign THEN s
        ELSE IF node.behaviour.malicious_skip_block
        THEN [s EXCEPT !.nodes[me].epoch_private_keys = <<>>]
        ELSE IF node.last_signed_block_number < current_block_number
        THEN sign_block([s EXCEPT !.nodes[me].last_signed_block_number = current_block_number],
                        me, current_block_number)
        ELSE s

\* ------------------------------------------------------------------------
\* Node: the step loop
\* ------------------------------------------------------------------------
\* Node.broadcast_gossip_negative
broadcast_gossip_negative(s, me, block_number) ==
    LET tx == NegativeGossipTransaction(s.nodes[me].node_pubkey, s.now, block_number)
        s1 == [s EXCEPT !.nodes[me].mempool = append_gossip_tx(@, tx),
                        !.hist.negative = Append(@, [node |-> me, tx |-> tx,
                                                     honest |-> IsHonest(s.nodes[me].behaviour)
                                                                  /\ me \notin s.hist.misbehaved])]
    IN  broadcast_transaction(s1, me, tx)

\* a faulty try_to_send_negative_gossip: the node waits only when it is
\* permitted to gossip
try_to_send_negative_gossip_permitted_only(s, me, previous_timeslot_number) ==
    LET node == s.nodes[me]
        epoch_block_number == convert_to_epoch_block_number(previous_timeslot_number)
        epoch_hashes == get_epoch_hashes(node)
        allowed_to_send_negative_gossip ==
            \E i \in DOMAIN epoch_hashes :
                node.node_pubkey \in
                    get_gossip_permission(s.vals, epoch_hashes[i].v, epoch_block_number)
    IN  IF ~has_block_number(node.dag, previous_timeslot_number)
        THEN [s |-> IF allowed_to_send_negative_gossip
                    THEN broadcast_gossip_negative(s, me, previous_timeslot_number) ELSE s,
              wait |-> allowed_to_send_negative_gossip]
        ELSE [s |-> s, wait |-> FALSE]

\* Node.try_to_send_negative_gossip: the state after it and what it returns
try_to_send_negative_gossip(s, me, previous_timeslot_number) ==
    LET node == s.nodes[me]
        epoch_block_number == convert_to_epoch_block_number(previous_timeslot_number)
        epoch_hashes == get_epoch_hashes(node)
        allowed_to_send_negative_gossip ==
            \E i \in DOMAIN epoch_hashes :
                node.node_pubkey \in
                    get_gossip_permission(s.vals, epoch_hashes[i].v, epoch_block_number)
    IN  IF ~has_block_number(node.dag, previous_timeslot_number)
        THEN [s |-> IF allowed_to_send_negative_gossip
                    THEN broadcast_gossip_negative(s, me, previous_timeslot_number) ELSE s,
              wait |-> TRUE]
        ELSE [s |-> s, wait |-> FALSE]

\* a faulty handle_timeslot_changed: last_expected_timeslot lags one timeslot
\* behind the current one
handle_timeslot_changed_lagging(s, me, previous_timeslot_number, current_timeslot_number) ==
    try_to_send_negative_gossip(
        [s EXCEPT !.nodes[me].last_expected_timeslot = current_timeslot_number - 1],
        me, previous_timeslot_number)

\* Node.handle_timeslot_changed
handle_timeslot_changed(s, me, previous_timeslot_number, current_timeslot_number) ==
    try_to_send_negative_gossip(
        [s EXCEPT !.nodes[me].last_expected_timeslot = current_timeslot_number],
        me, previous_timeslot_number)

\* Behaviour.update_transport: a node kept offline is cut off from the first to
\* the last timeslot of the window and is back afterwards
update_transport(behaviour, current_block_number) ==
    IF behaviour.transport_keep_offline = <<>> THEN behaviour
    ELSE LET offline == /\ behaviour.transport_keep_offline[1] <= current_block_number
                        /\ current_block_number <= behaviour.transport_keep_offline[2]
         IN  [behaviour EXCEPT !.transport_node_disable_input = offline,
                               !.transport_node_disable_output = offline]

\* Node.step, after the attempt to sign: the attempt is remembered
step_signed(s3, me) ==
    IF s3.exc # NoExc THEN s3
    ELSE [s3 EXCEPT !.nodes[me].tried_to_sign_current_block = TRUE]

\* a faulty Node.step: the wait for the block of the previous timeslot uses up
\* the attempt to sign
step_sign_attempt_spent(r, me, current_block_number) ==
    IF r.s.exc # NoExc THEN r.s
    ELSE IF r.wait THEN [r.s EXCEPT !.nodes[me].tried_to_sign_current_block = TRUE]
    ELSE IF r.s.nodes[me].tried_to_sign_current_block
    THEN IF r.s.nodes[me].last_signed_block_number = current_block_number
              /\ IsHonest(r.s.nodes[me].behaviour)
              /\ me \notin r.s.hist.misbehaved
         THEN [r.s EXCEPT !.hist.restepped = TRUE] ELSE r.s
    ELSE step_signed(try_to_sign_block(r.s, me, current_block_number), me)

\* Node.step, after the test of the timeslot: r is the state and whether the
\* node waits for the block of the previous timeslot
step_sign(r, me, current_block_number) ==
    IF r.s.exc # NoExc \/ r.wait THEN r.s
    ELSE IF r.s.nodes[me].tried_to_sign_current_block
    THEN IF r.s.nodes[me].last_signed_block_number = current_block_number
              /\ IsHonest(r.s.nodes[me].behaviour)
              /\ me \notin r.s.hist.misbehaved
         THEN [r.s EXCEPT !.hist.restepped = TRUE] ELSE r.s
    ELSE step_signed(try_to_sign_block(r.s, me, current_block_number), me)

\* Node.step, the test of the timeslot after the emission of the round
step_timeslot(s1, me, current_block_number) ==
    IF s1.exc # NoExc THEN s1
    ELSE step_sign(
            IF current_block_number # s1.nodes[me].last_expected_timeslot
            THEN handle_timeslot_changed(
                    [s1 EXCEPT !.nodes[me].tried_to_sign_current_block = FALSE], me,
                    s1.nodes[me].last_expected_timeslot, current_block_number)
            ELSE [s |-> s1, wait |-> FALSE],
            me, current_block_number)

\* Node.step, the epoch hashes and the transport behaviour brought up to date
step_update(node, current_block_number) ==
    [(IF is_new_epoch_upcoming(current_block_number)
      THEN accept_tops_as_epoch_hashes(node) ELSE node) EXCEPT
        !.behaviour = update_transport(@, current_block_number)]

\* Node.step
step(s, me) ==
    step_timeslot(
        RoundEmission(
            SetNode(AcceptLogged(s, me, get_current_timeframe_block_number(s.now), FALSE), me,
                    step_update(s.nodes[me], get_current_timeframe_block_number(s.now))),
            me, get_round_by_block_number(get_current_timeframe_block_number(s.now))),
        me, get_current_timeframe_block_number(s.now))

\* ------------------------------------------------------------------------
\* The system: construction, the clock, the step loops and an outside peer
\* ------------------------------------------------------------------------
\* the Behaviour() objects the nodes are constructed with
BehaviourProfiles ==
    {HonestBehaviour,
     [HonestBehaviour EXCEPT !.transport_node_disable_output = TRUE],
     [HonestBehaviour EXCEPT !.transport_node_disable_input = TRUE],
     [HonestBehaviour EXCEPT !.transport_keep_offline = <<1, 1>>],
     [HonestBehaviour EXCEPT !.transport_cancel_block_broadcast = TRUE],
     [HonestBehaviour EXCEPT !.malicious_excessive_block_count = 1],
     [HonestBehaviour EXCEPT !.malicious_skip_block = TRUE]}

\* the behaviours of the nodes of one run: at most one node is not honest
Behaviours ==
    {b \in [NodeIds -> BehaviourProfiles] :
        Cardinality({i \in NodeIds : b[i] # HonestBehaviour}) <= 1}

\* Validators(): signers_order and randomizers_order as the tests assign them
\* (one signer for every timeslot, or the validators in turn, the first or the
\* last validator opening), every validator permitted to gossip
ValidatorConfigs ==
    {[signers_order |-> [i \in 0 .. get_duration |-> (i * turn + first) % NumNodes],
      randomizers_order |-> [i \in 0 .. (get_duration - 1) |-> 0],
      gossipers |-> NodeIds] : first \in {0, NumNodes - 1}, turn \in {0, 1}}

\* Network(): the registered nodes in registration order
NewNetwork == [nodes |-> [i \in 1 .. NumNodes |-> i - 1]]

NewHistory ==
    [inserted |-> <<>>, requests |-> <<>>, buffered |-> <<>>, positive |-> <<>>,
     published |-> <<>>, signed |-> <<>>, negative |-> <<>>, injected |-> 0,
     restepped |-> FALSE, misbehaved |-> {},
     accepted |-> [n \in NodeIds |-> 0], accepted_on_block |-> {},
     found |-> [asked |-> FALSE], broadcasts |-> <<>>, delivered |-> <<>>,
     fetched |-> <<>>, cited |-> <<>>]

\* the system state the operators thread
State ==
    [nodes |-> nodes, net |-> net, exc |-> exc, now |-> now, vals |-> validators,
     hist |-> hist]

Becomes(s) ==
    /\ nodes' = s.nodes
    /\ net' = s.net
    /\ exc' = s.exc
    /\ hist' = s.hist
    /\ UNCHANGED <<now, validators>>

Init ==
    /\ validators \in ValidatorConfigs
    /\ nodes \in {[i \in NodeIds |-> NewNode(i, b[i])] : b \in Behaviours}
    /\ net = NewNetwork
    /\ now = GenesisTime
    /\ exc = NoExc
    /\ hist = NewHistory

\* Time.advance_to_next_timeslot
AdvanceToNextTimeslot ==
    /\ exc = NoExc
    /\ get_current_timeframe_block_number(now) < MaxTimeslot
    /\ now' = now + BLOCK_TIME
    /\ UNCHANGED <<nodes, net, exc, validators, hist>>

\* Node.run: one call of step
Step(n) ==
    /\ exc = NoExc
    /\ Becomes(step(State, n))

\* the hashes a peer can name as parents: the blocks some node holds and one
\* block no node holds
PhantomBlock == Block(GenesisTime + 1, <<get_hash(genesis_block)>>, <<>>)

\* the blocks a peer builds on: the tops of the sender's dag and the phantom
ParentsFrom(sender) == Range(get_top_blocks_hashes(nodes[sender].dag)) \cup {PhantomBlock}

\* the keys a peer signs with: the key permitted for the timeslot, an outsider's
SignersFor(ts) ==
    {get_sign_permission(validators, get_hash(genesis_block),
                         convert_to_epoch_block_number(get_block_number_from_timestamp(ts))),
     OutsiderKey}

\* a timestamp in the last timeslot of the first era
OutOfEpochTime == GenesisTime + BLOCK_TIME * get_epoch_end_block_number(1)

\* Network delivery of a block made by a peer: Node.handle_block_message
Deliver(n, sender, sb, max) ==
    /\ exc = NoExc
    /\ hist.injected < max
    /\ Becomes(handle_block_message(
                  [State EXCEPT !.hist.injected = @ + 1],
                  n, sender, sb))

\* a peer hands node n a block it built on a top of the sender's dag, for the
\* current timeslot or for the last timeslot of the era
ReceiveBlock ==
    \E n \in NodeIds : \E sender \in NodeIds \ {n} :
        \E ts \in {now, OutOfEpochTime} :
            \E key \in SignersFor(ts), p \in ParentsFrom(sender) :
                Deliver(n, sender, SignedBlock(Block(ts, <<p>>, <<>>), key), MaxInjected)

\* a peer hands node n a block of the current timeslot, signed by the permitted
\* key and built on a block n does not hold, alone or after the genesis block
ReceiveOrphan ==
    \E n \in NodeIds : \E sender \in NodeIds \ {n} :
        \E p \in {q \in ParentsFrom(sender) : ~InDag(nodes[n].dag, q)},
           key \in SignersFor(now) \ {OutsiderKey} :
            \E links \in {<<p>>, <<get_hash(genesis_block), p>>} :
                Deliver(n, sender, SignedBlock(Block(now, links, <<>>), key), MaxOrphans)

Next ==
    \/ AdvanceToNextTimeslot
    \/ \E n \in NodeIds : Step(n)
    \/ ReceiveBlock

Spec == Init /\ [][Next]_vars

\* the nodes alone: the clock and the step loops
NextSteps ==
    \/ AdvanceToNextTimeslot
    \/ \E n \in NodeIds : Step(n)

SpecSteps == Init /\ [][NextSteps]_vars

\* the nodes and a peer that relays blocks whose parents the receiver lacks
NextOrphans ==
    \/ AdvanceToNextTimeslot
    \/ \E n \in NodeIds : Step(n)
    \/ ReceiveOrphan

SpecOrphans == Init /\ [][NextOrphans]_vars

\* Validators() with the permission to gossip given to some of the validators
GossipConfigs ==
    {[v EXCEPT !.gossipers = g] : v \in ValidatorConfigs, g \in SUBSET NodeIds}

InitGossip ==
    /\ validators \in GossipConfigs
    /\ nodes \in {[i \in NodeIds |-> NewNode(i, b[i])] : b \in Behaviours}
    /\ net = NewNetwork
    /\ now = GenesisTime
    /\ exc = NoExc
    /\ hist = NewHistory

\* the nodes alone, some of them without the permission to gossip
SpecGossip == InitGossip /\ [][NextSteps]_vars

\* a node's conflict watcher is asked for the conflicts between the tops of the
\* node's dag and one of their common ancestors; hist keeps the question and
\* the answer
FindConflicts(n) ==
    /\ exc = NoExc
    /\ \E common_ancestor \in
            {a \in DictKeys(nodes[n].dag.blocks_by_hash) :
                \A top \in Range(get_top_blocks_hashes(nodes[n].dag)) :
                    IsAncestorOrSelf(nodes[n].dag, a, top)} :
          hist' = [hist EXCEPT !.found =
                      [asked |-> TRUE, dag |-> nodes[n].dag, cw |-> nodes[n].conflict_watcher,
                       tops |-> get_top_blocks_hashes(nodes[n].dag),
                       common_ancestor |-> common_ancestor,
                       result |-> find_conflicts_in_between(
                                     nodes[n].conflict_watcher, nodes[n].dag,
                                     get_top_blocks_hashes(nodes[n].dag), common_ancestor)]]
    /\ UNCHANGED <<nodes, net, now, exc, validators>>

\* the nodes alone, their conflict watchers asked between the steps
NextConflicts ==
    \/ AdvanceToNextTimeslot
    \/ \E n \in NodeIds : Step(n)
    \/ \E n \in NodeIds : FindConflicts(n)

SpecConflicts == Init /\ [][NextConflicts]_vars

\* a network of one honest validator, elected for every timeslot, started at
\* some second of timeslot 0
SoloInit ==
    /\ validators = [signers_order |-> [i \in 0 .. get_duration |-> 0],
                     randomizers_order |-> [i \in 0 .. (get_duration - 1) |-> 0],
                     gossipers |-> {0}]
    /\ nodes = [i \in {0} |-> NewNode(0, HonestBehaviour)]
    /\ net = [nodes |-> <<0>>]
    /\ now \in GenesisTime .. (GenesisTime + BLOCK_TIME - 1)
    /\ exc = NoExc
    /\ hist = NewHistory

\* the validator has stepped in the timeslot the clock is in
SoloStepped ==
    /\ nodes[0].last_expected_timeslot = get_current_timeframe_block_number(now)
    /\ nodes[0].tried_to_sign_current_block

\* Time.advance_to_next_timeslot, once the validator has stepped in the
\* timeslot the clock leaves (Node.run steps once a second); timeslot 0 may
\* pass without a step
SoloAdvance ==
    /\ exc = NoExc
    /\ get_current_timeframe_block_number(now) < MaxSoloTimeslot
    /\ get_current_timeframe_block_number(now) = 0 \/ SoloStepped
    /\ now' = now + BLOCK_TIME
    /\ UNCHANGED <<nodes, net, exc, validators, hist>>

\* one validator alone: the clock and its step loop
NextSolo ==
    \/ SoloAdvance
    \/ Step(0)

SpecSolo == SoloInit /\ [][NextSolo]_vars

\* ------------------------------------------------------------------------
\* One validator alone that holds ephemeral private keys at the start
\* ------------------------------------------------------------------------
\* the ephemeral private keys a node can hold, oldest first: none, one, or two
\* (a node that published under two epoch hashes)
HeldKeys ==
    {<<>>} \cup {<<[owner |-> 0, serial |-> a]>> : a \in 1 .. 2}
           \cup {<<[owner |-> 0, serial |-> a], [owner |-> 0, serial |-> 3 - a]>> : a \in 1 .. 2}

KeysInit ==
    /\ validators = [signers_order |-> [i \in 0 .. get_duration |-> 0],
                     randomizers_order |-> [i \in 0 .. (get_duration - 1) |-> 0],
                     gossipers |-> {0}]
    /\ nodes \in {[i \in {0} |-> [NewNode(0, HonestBehaviour) EXCEPT
                                    !.epoch_private_keys = keys,
                                    !.keys_generated = 2]] : keys \in HeldKeys}
    /\ net = [nodes |-> <<0>>]
    /\ now = GenesisTime
    /\ exc = NoExc
    /\ hist = NewHistory

SpecKeys == KeysInit /\ [][NextSolo]_vars

\* ------------------------------------------------------------------------
\* A block that arrives a timeslot late
\* ------------------------------------------------------------------------
\* the block of timeslot 1 is signed by a validator whose node is not run, the
\* blocks of the other timeslots by one of the nodes; every node may gossip
LateConfigs ==
    {[signers_order |-> [i \in 0 .. get_duration |->
                           IF i = convert_to_epoch_block_number(1) THEN NumNodes ELSE signer],
      randomizers_order |-> [i \in 0 .. (get_duration - 1) |-> 0],
      gossipers |-> NodeIds] : signer \in NodeIds}

LateInit ==
    /\ validators \in LateConfigs
    /\ nodes \in {[i \in NodeIds |-> NewNode(i, b[i])] : b \in Behaviours}
    /\ net = NewNetwork
    /\ now = GenesisTime
    /\ exc = NoExc
    /\ hist = NewHistory

\* the block the validator of timeslot 1 signed on the genesis block
LateBlock ==
    SignedBlock(Block(GenesisTime + BLOCK_TIME, <<get_hash(genesis_block)>>, <<>>), NumNodes)

\* the network hands node n the block of timeslot 1, in timeslot 1 or later:
\* Node.handle_block_message
ReceiveLate ==
    /\ get_current_timeframe_block_number(now) >= 1
    /\ \E n \in NodeIds : \E sender \in NodeIds \ {n} :
          Deliver(n, sender, LateBlock, MaxInjected)

NextLate ==
    \/ AdvanceToNextTimeslot
    \/ \E n \in NodeIds : Step(n)
    \/ ReceiveLate

SpecLate == LateInit /\ [][NextLate]_vars

\* ------------------------------------------------------------------------
\* Three nodes: the signer of timeslot 1 runs a node as well
\* ------------------------------------------------------------------------
RelayIds == 0 .. NumNodes

\* the nodes of LateConfigs and the node of the validator that signs the
\* block of timeslot 1, all registered in the network; at most one of the
\* first nodes is not honest
RelayInit ==
    /\ validators \in LateConfigs
    /\ nodes \in {[i \in RelayIds |->
                     NewNode(i, IF i \in NodeIds THEN b[i] ELSE HonestBehaviour)] :
                  b \in Behaviours}
    /\ net = [nodes |-> [i \in 1 .. (NumNodes + 1) |-> i - 1]]
    /\ now = GenesisTime
    /\ exc = NoExc
    /\ hist = [NewHistory EXCEPT !.accepted = [n \in RelayIds |-> 0]]

NextRelay ==
    \/ AdvanceToNextTimeslot
    \/ \E n \in RelayIds : Step(n)

SpecRelay == RelayInit /\ [][NextRelay]_vars

\* ------------------------------------------------------------------------
\* The block handler of src/src/core/node/node.py
\* ------------------------------------------------------------------------
\* Node.get_allowed_signers_for_next_block, before its assertion: the node
\* with its epoch hashes brought up to date and, for every parent of the block
\* that an epoch hash governs, the signer of the timeslot the clock is in
get_allowed_signers_for_next_block(node, vals, time, block) ==
    LET current_block_number == get_current_timeframe_block_number(time)
        epoch_block_number == convert_to_epoch_block_number(current_block_number)
        node1 == IF is_new_epoch_upcoming(current_block_number)
                 THEN accept_tops_as_epoch_hashes(node) ELSE node
        epoch_hashes == get_epoch_hashes(node1)
        EpochHashOf(prev_hash) ==
            IF DictHas(epoch_hashes, prev_hash) THEN DictGet(epoch_hashes, prev_hash)
            ELSE find_epoch_hash_for_block(node1.epoch_hashes, node1.dag, prev_hash)
        Governed(prev_hash) == EpochHashOf(prev_hash) # NoBlock
        governed == SelectSeq(block.prev_hashes, Governed)
    IN  [node |-> node1,
         signers |-> [i \in DOMAIN governed |->
                         get_sign_permission(vals, EpochHashOf(governed[i]),
                                             epoch_block_number)]]

\* Node.handle_block_message, after the allowed signers were collected: a block
\* that carries the signature of one of them is added under the timeslot the
\* clock is in
core_block_allowed(s, me, r, signed_block) ==
    IF Len(r.signers) = 0 THEN Raise(SetNode(s, me, r.node), "AssertionError")
    ELSE IF \E i \in DOMAIN r.signers : verify_signature(signed_block, r.signers[i])
    THEN SetNode(s, me,
            [r.node EXCEPT
                !.dag = add_signed_block(@, get_current_timeframe_block_number(s.now),
                                         signed_block),
                !.mempool = remove_transactions(@, signed_block.block.system_txs)])
    ELSE SetNode(s, me, r.node)

\* Node.handle_block_message of src/src/core/node/node.py
core_handle_block_message(s, me, node_id, signed_block) ==
    IF s.exc # NoExc THEN s
    ELSE core_block_allowed(s, me,
            get_allowed_signers_for_next_block(s.nodes[me], s.vals, s.now,
                                               signed_block.block),
            signed_block)

\* number of blocks handed to the nodes in one run
MaxCoreBlocks == 3

\* the first seconds of the timeslots after genesis up to the current one
CoreTimes == {GenesisTime + BLOCK_TIME * k : k \in 1 .. get_current_timeframe_block_number(now)}

\* the validator that signs the timeslot of timestamp ts
CoreSigner(ts) ==
    get_sign_permission(validators, get_hash(genesis_block),
                        convert_to_epoch_block_number(get_block_number_from_timestamp(ts)))

\* the network hands node n a block another validator, the signer of a
\* timeslot, made in that timeslot on a block n holds, in that timeslot or later
ReceiveCore ==
    /\ exc = NoExc
    /\ hist.injected < MaxCoreBlocks
    /\ \E n \in NodeIds : \E sender \in NodeIds \ {n} :
          \E ts \in {u \in CoreTimes : CoreSigner(u) # nodes[n].node_pubkey} :
          \E p \in {q \in DictKeys(nodes[n].dag.blocks_by_hash) : q.timestamp < ts} :
             Becomes(core_handle_block_message(
                        [State EXCEPT !.hist.injected = @ + 1], n, sender,
                        SignedBlock(Block(ts, <<p>>, <<>>), CoreSigner(ts))))

CoreInit ==
    /\ validators \in ValidatorConfigs
    /\ nodes = [i \in NodeIds |-> NewNode(i, HonestBehaviour)]
    /\ net = NewNetwork
    /\ now = GenesisTime
    /\ exc = NoExc
    /\ hist = NewHistory

NextCore ==
    \/ AdvanceToNextTimeslot
    \/ ReceiveCore

SpecCore == CoreInit /\ [][NextCore]_vars

\* ------------------------------------------------------------------------
\* StakeManager: the stake actions of the chain that ends at an epoch hash
\* ------------------------------------------------------------------------
StakeHoldTransaction(amount, pubkey) ==
    [kind |-> "StakeHold", amount |-> amount, pubkey |-> pubkey]

StakeReleaseTransaction(pubkey) == [kind |-> "StakeRelease", pubkey |-> pubkey]

\* the reversed list
Reversed(q) == [i \in 1 .. Len(q) |-> q[Len(q) + 1 - i]]

RECURSIVE ChainIter(_, _, _)
\* ChainIter(dag, block_hash): one item for every timeslot from that of
\* block_hash down to the genesis timeslot: the signed block of the chain
\* (followed over the first parent link) stored under the timeslot, or None
\* (here no block) for a timeslot the chain skips; block_number is the
\* timeslot of the item
ChainIter(dag, block_hash, block_number) ==
    IF block_number < 0 THEN <<>>
    ELSE IF get_block_number(dag, block_hash) = block_number
    THEN LET sb == DictGet(dag.blocks_by_hash, block_hash)
         IN  <<[block_number |-> block_number, block |-> <<sb>>]>>
                \o (IF sb.block.prev_hashes = <<>> THEN <<>>
                    ELSE ChainIter(dag, sb.block.prev_hashes[1], block_number - 1))
    ELSE <<[block_number |-> block_number, block |-> <<>>]>>
            \o ChainIter(dag, block_hash, block_number - 1)

\* isinstance(tx, StakeHoldTransaction / StakeReleaseTransaction / PenaltyTransaction)
IsStakeAction(tx) == tx.kind \in {"StakeHold", "StakeRelease", "Penalty"}

\* get_stake_actions, the inner loop: the stake transactions of one item
StakeActionsOfBlock(item) ==
    IF item.block = <<>> THEN <<>>
    ELSE SelectSeq(item.block[1].block.system_txs, IsStakeAction)

RECURSIVE StakeLoop(_, _, _)
\* get_stake_actions, the loop over the items of the iterator: it ends at the
\* genesis timeslot or after get_duration items
StakeLoop(items, i, count) ==
    IF i > Len(items) THEN <<>>
    ELSE IF items[i].block_number = 0 THEN <<>>
    ELSE IF count + 1 = get_duration THEN StakeActionsOfBlock(items[i])
    ELSE StakeActionsOfBlock(items[i]) \o StakeLoop(items, i + 1, count + 1)

\* StakeManager.get_stake_actions
get_stake_actions(dag, epoch_hash) ==
    Reversed(StakeLoop(ChainIter(dag, epoch_hash, get_block_number(dag, epoch_hash)), 1, 0))

\* ------------------------------------------------------------------------
\* One chain grown timeslot by timeslot, some blocks with stake transactions,
\* and asked for the stake actions that end at its top
\* ------------------------------------------------------------------------
\* the chain is not grown beyond this timeslot
MaxStakeTimeslot == 14

\* at most this many blocks of the chain carry transactions
MaxStakeCarriers == 2

\* at most this many timeslots of the chain are left without a block
MaxStakeSkips == 1

\* the transaction lists a block of the chain carries
StakeTxLists ==
    {<<StakeHoldTransaction(1, 0), StakeReleaseTransaction(0)>>,
     <<CommitRandomTransaction(1, get_hash(genesis_block), 1), StakeHoldTransaction(2, 1)>>,
     <<[kind |-> "Penalty", conflicts |-> <<get_hash(genesis_block)>>]>>}

\* the top of the chain: the block of the highest filled timeslot
StakeTop(dag) ==
    LET d == dag.blocks_by_number
        i == CHOOSE j \in DOMAIN d : \A j2 \in DOMAIN d : d[j2].k <= d[j].k
    IN  d[i].v[1]

\* the blocks of the dag that carry transactions
StakeCarriers(dag) ==
    {i \in DOMAIN dag.blocks_by_hash : dag.blocks_by_hash[i].v.block.system_txs # <<>>}

StakeInit ==
    /\ nodes = [i \in {0} |-> [dag |-> NewDag]]
    /\ net = [nodes |-> <<>>]
    /\ validators = <<>>
    /\ now = GenesisTime
    /\ exc = NoExc
    /\ hist = [asked |-> FALSE, epoch_hash |-> get_hash(genesis_block), result |-> <<>>]

\* the clock passes to the next timeslot and a block on the top of the chain is
\* stored under it
StakeAppend ==
    /\ ~hist.asked
    /\ get_current_timeframe_block_number(now) < MaxStakeTimeslot
    /\ now' = now + BLOCK_TIME
    /\ \E txs \in {<<>>} \cup (IF Cardinality(StakeCarriers(nodes[0].dag)) < MaxStakeCarriers
                                THEN StakeTxLists ELSE {}) :
          nodes' = [nodes EXCEPT ![0].dag =
                       add_signed_block(@, get_block_number_from_timestamp(now + BLOCK_TIME),
                          SignedBlock(Block(now + BLOCK_TIME,
                                            <<get_hash(StakeTop(nodes[0].dag).block)>>, txs),
                                      0))]
    /\ UNCHANGED <<net, exc, validators, hist>>

\* the clock passes to the next timeslot, which stays empty
StakeSkip ==
    /\ ~hist.asked
    /\ get_current_timeframe_block_number(now) < MaxStakeTimeslot - 1
    /\ get_current_timeframe_block_number(now) + 1 - Len(nodes[0].dag.blocks_by_number)
          < MaxStakeSkips
    /\ now' = now + BLOCK_TIME
    /\ UNCHANGED <<nodes, net, exc, validators, hist>>

\* get_stake_actions for the top of the chain
StakeAsk ==
    /\ ~hist.asked
    /\ hist' = [asked |-> TRUE, epoch_hash |-> get_hash(StakeTop(nodes[0].dag).block),
                result |-> get_stake_actions(nodes[0].dag,
                                             get_hash(StakeTop(nodes[0].dag).block))]
    /\ UNCHANGED <<nodes, net, now, exc, validators>>

NextStake ==
    \/ StakeAppend
    \/ StakeSkip
    \/ StakeAsk

SpecStake == StakeInit /\ [][NextStake]_vars

\* ------------------------------------------------------------------------
\* CommitsSet: the commit transactions collected from a top block downwards
\* ------------------------------------------------------------------------
\* the attributes transactions_by_hash and transactions_by_pubkey of the class
\* CommitsSet: __init__ assigns neither on the instance, so every instance
\* reads and writes the dicts of the class
NewCommitsSetClass == [transactions_by_hash |-> <<>>, transactions_by_pubkey |-> <<>>]

\* CommitsSet.add_transaction
commits_add_transaction(cls, tx) ==
    [transactions_by_hash |-> DictSet(cls.transactions_by_hash, get_hash(tx), tx),
     transactions_by_pubkey |-> DictSet(cls.transactions_by_pubkey, tx.pubkey, tx)]

RECURSIVE AddCommits(_, _, _)
\* recursive_collect_commited_transactions, the loop over block.system_txs
AddCommits(cls, system_txs, i) ==
    IF i > Len(system_txs) THEN cls
    ELSE AddCommits(IF system_txs[i].kind = "CommitRandom"
                    THEN commits_add_transaction(cls, system_txs[i])
                    ELSE cls,
                    system_txs, i + 1)

RECURSIVE recursive_collect_commited_transactions(_, _, _)
RECURSIVE CollectParents(_, _, _, _)
\* recursive_collect_commited_transactions, the loop over block.prev_hashes
CollectParents(cls, dag, prev_hashes, i) ==
    IF i > Len(prev_hashes) THEN cls
    ELSE CollectParents(recursive_collect_commited_transactions(cls, dag, prev_hashes[i]),
                        dag, prev_hashes, i + 1)

\* CommitsSet.recursive_collect_commited_transactions: an entry of
\* blocks_by_hash without the attribute system_txs ends the walk
recursive_collect_commited_transactions(cls, dag, tx_hash) ==
    LET block == DictGet(dag.blocks_by_hash, tx_hash)
    IN  IF "system_txs" \notin DOMAIN block THEN cls
        ELSE CollectParents(AddCommits(cls, block.system_txs, 1), dag, block.prev_hashes, 1)

\* ------------------------------------------------------------------------
\* Two dags and the CommitsSets built for tops of them, one after another
\* ------------------------------------------------------------------------
\* at most this many CommitsSets are built
MaxCommitsSets == 2

\* the transaction lists the blocks of the dags carry
CommitTxLists ==
    {<<>>,
     <<CommitRandomTransaction(1, get_hash(genesis_block), 0)>>,
     <<CommitRandomTransaction(2, get_hash(genesis_block), 1),
       RevealRandomTransaction(CommitRandomTransaction(1, get_hash(genesis_block), 0), 1)>>}

\* a dag whose blocks_by_hash holds the blocks of the list under their hashes
BlockDag(blocks) ==
    [blocks_by_hash |-> [i \in DOMAIN blocks |-> [k |-> get_hash(blocks[i]), v |-> blocks[i]]]]

\* genesis, two blocks on it in timeslot 1 and their merge in timeslot 2
ForkedDag(txs1, txs2, txs3) ==
    LET b1 == Block(GenesisTime + BLOCK_TIME, <<get_hash(genesis_block)>>, txs1)
        b2 == Block(GenesisTime + BLOCK_TIME + 1, <<get_hash(genesis_block)>>, txs2)
    IN  BlockDag(<<genesis_block, b1, b2,
                   Block(GenesisTime + 2 * BLOCK_TIME, <<get_hash(b1), get_hash(b2)>>, txs3)>>)

\* the dags CommitsSets are built for: dags of blocks, and the dag of signed
\* blocks Dag.__init__ creates
CommitsDags ==
    {ForkedDag(t1, t2, t3) : t1, t2 \in CommitTxLists, t3 \in {<<>>}}
        \cup {BlockDag(<<genesis_block,
                         Block(GenesisTime + 3 * BLOCK_TIME, <<get_hash(genesis_block)>>, t)>>) :
                 t \in CommitTxLists \ {<<>>}}
        \cup {[blocks_by_hash |-> NewDag.blocks_by_hash]}

CommitsInit ==
    /\ nodes \in [{0, 1} -> [dag : CommitsDags]]
    /\ net = [nodes |-> <<>>]
    /\ validators = <<>>
    /\ now = GenesisTime
    /\ exc = NoExc
    /\ hist = [class |-> NewCommitsSetClass, sets |-> <<>>]

\* CommitsSet(dag, top_block_hash) for a dag and a hash the dag holds
BuildCommitsSet ==
    /\ Len(hist.sets) < MaxCommitsSets
    /\ \E d \in DOMAIN nodes :
          \E top_block_hash \in DictKeys(nodes[d].dag.blocks_by_hash) :
             hist' = [class |-> recursive_collect_commited_transactions(
                                   hist.class, nodes[d].dag, top_block_hash),
                      sets |-> Append(hist.sets,
                                      [dag |-> d, top |-> top_block_hash,
                                       found |-> hist.class.transactions_by_hash])]
    /\ UNCHANGED <<nodes, net, now, exc, validators>>

NextCommits == BuildCommitsSet

SpecCommits == CommitsInit /\ [][NextCommits]_vars

\* ------------------------------------------------------------------------
\* Two honest validators through the rounds of an era and into the next
\* ------------------------------------------------------------------------
MaxRoundsTimeslot == 17

\* a validator whose node is not run
AbsentValidator == NumNodes

\* node 0 is the randomizer of every round; the blocks of all timeslots are
\* signed by one validator, node 0, node 1 or the absent one; no validator is
\* asked to gossip
RoundsConfigs ==
    {[signers_order |-> [i \in 0 .. get_duration |-> signer],
      randomizers_order |-> [i \in 0 .. (get_duration - 1) |-> 0],
      gossipers |-> {}] : signer \in NodeIds \cup {AbsentValidator}}

RoundsInit ==
    /\ validators \in RoundsConfigs
    /\ nodes = [i \in NodeIds |-> NewNode(i, HonestBehaviour)]
    /\ net = NewNetwork
    /\ now = GenesisTime
    /\ exc = NoExc
    /\ hist = NewHistory

\* every node has stepped in the timeslot the clock is in
RoundsStepped ==
    \A n \in NodeIds :
        /\ nodes[n].last_expected_timeslot = get_current_timeframe_block_number(now)
        /\ nodes[n].tried_to_sign_current_block

\* Time.advance_to_next_timeslot, once every node has stepped in the timeslot
\* the clock leaves (the tests step every node in every timeslot)
RoundsAdvance ==
    /\ exc = NoExc
    /\ get_current_timeframe_block_number(now) < MaxRoundsTimeslot
    /\ get_current_timeframe_block_number(now) = 0 \/ RoundsStepped
    /\ now' = now + BLOCK_TIME
    /\ UNCHANGED <<nodes, net, exc, validators, hist>>

NextRounds ==
    \/ RoundsAdvance
    \/ \E n \in NodeIds : Step(n)

SpecRounds == RoundsInit /\ [][NextRounds]_vars

\* ------------------------------------------------------------------------
\* Dag: the eras and the rounds of the dag's own clock arithmetic
\* ------------------------------------------------------------------------
\* Dag.get_era_duration
get_era_duration == COMMIT_DURATION + REVEAL_DURATION + PARTIAL_DURATION

\* Dag.get_era_number
get_era_number(current_block_number) ==
    IF current_block_number = 0 THEN 0
    ELSE current_block_number \div get_era_duration + 1

\* Dag.get_epoch_by_block_number
get_epoch_by_block_number(current_block_number) ==
    LET era_number == get_era_number(current_block_number)
        era_start_block == era_number * get_era_duration
    IN  IF current_block_number <= era_start_block + COMMIT_DURATION THEN COMMIT
        ELSE IF current_block_number <= era_start_block + COMMIT_DURATION + REVEAL_DURATION
        THEN REVEAL
        ELSE PARTIAL

\* Dag.get_current_epoch
get_current_epoch(time) ==
    get_epoch_by_block_number(get_current_timeframe_block_number(time))

\* a dag created at GenesisTime and asked, at some second of its clock, for the
\* era and the round of a timeslot; hist holds the last answer
EraInit ==
    /\ nodes = [i \in {0} |-> [dag |-> NewDag]]
    /\ net = [nodes |-> <<>>]
    /\ validators = <<>>
    /\ now \in GenesisTime .. (GenesisTime + BLOCK_TIME - 1)
    /\ exc = NoExc
    /\ hist = [asked |-> FALSE, number |-> 0, era |-> 0, epoch |-> COMMIT]

\* the clock passes to the next timeslot
EraAdvance ==
    /\ get_current_timeframe_block_number(now) < MaxEraTimeslot
    /\ now' = now + BLOCK_TIME
    /\ UNCHANGED <<nodes, net, exc, validators, hist>>

\* get_era_number and get_epoch_by_block_number of a timeslot up to the
\* current one (get_current_epoch for the current one)
EraQuery ==
    /\ \E n \in 0 .. get_current_timeframe_block_number(now) :
          hist' = [asked |-> TRUE, number |-> n, era |-> get_era_number(n),
                   epoch |-> IF n = get_current_timeframe_block_number(now)
                             THEN get_current_epoch(now)
                             ELSE get_epoch_by_block_number(n)]
    /\ UNCHANGED <<nodes, net, now, exc, validators>>

NextEra ==
    \/ EraAdvance
    \/ EraQuery

SpecEra == EraInit /\ [][NextEra]_vars

\* ------------------------------------------------------------------------
\* Network groups (src/node/network.py): the network alone, its nodes taken
\* as their ids and transport flags, and a handler call as an entry of
\* the list of receivers
\* ------------------------------------------------------------------------
NumNetNodes == 3

NumGroups == 2

MaxGroupLen == 2

MaxMoves == 2

NetNodeIds == 0 .. (NumNetNodes - 1)

GroupIds == 0 .. (NumGroups - 1)

\* Network.__init__: self.nodes is a new list; self.groups is None, or a
\* dict with an empty list for every group given
\* self.nodes is no filter object
NoFilter == [bound |-> "list", group |-> 0, id |-> 0, pos |-> 0, done |-> TRUE]

NewGroupNetwork(group_ids) ==
    [list |-> <<>>, bound |-> "list", group |-> 0, filter |-> NoFilter,
     has_groups |-> group_ids # <<>>,
     groups |-> [i \in DOMAIN group_ids |-> [k |-> group_ids[i], v |-> <<>>]],
     merge_groups_flag |-> FALSE]

\* the value of `if self.groups`: neither None nor an empty dict
GroupsSet(nw) == nw.has_groups /\ nw.groups # <<>>

\* the list self.nodes names: the one made by __init__, or the list of the
\* group it was assigned from (the same object as the group's); None is the
\* case bound = "none", and the filter object unregister_node assigns the
\* case bound = "filter" (FilterRest below)
NetNodes(nw) ==
    IF nw.bound = "group" THEN DictGet(nw.groups, nw.group) ELSE nw.list

\* self.nodes.append(node), seen through every name of that list
AppendNode(nw, node) ==
    IF nw.bound = "group"
    THEN [nw EXCEPT !.groups = DictSet(nw.groups, nw.group, Append(NetNodes(nw), node))]
    ELSE [nw EXCEPT !.list = Append(nw.list, node)]

\* self.groups[group_id].append(node)
AppendToGroup(nw, group_id, node) ==
    [nw EXCEPT !.groups = DictSet(nw.groups, group_id, Append(DictGet(nw.groups, group_id), node))]

\* the list the filter object of unregister_node iterates over
FilterSource(nw) ==
    IF nw.filter.bound = "group" THEN DictGet(nw.groups, nw.filter.group) ELSE nw.list

\* the positions of its list the filter object still yields: those behind the
\* last one it looked at that hold the node it was made for; none once the
\* iterator came to its end
FilterRest(nw) ==
    IF nw.filter.done THEN {}
    ELSE {i \in DOMAIN FilterSource(nw) :
             i > nw.filter.pos /\ FilterSource(nw)[i] = nw.filter.id}

\* the filter object after a loop over it that ran to the end
FilterExhausted(nw) == [nw EXCEPT !.filter.done = TRUE]

\* the filter object after a loop over it that was left at its first item
FilterStepped(nw) ==
    [nw EXCEPT !.filter.pos = CHOOSE i \in FilterRest(nw) : \A j \in FilterRest(nw) : i <= j]

\* check_node_input_transport_behaviour and check_node_output_transport_behaviour
\* over a filter object: True at the first item when it is the node asked
\* about and its transport is disabled; otherwise the loop runs to the end
FilterHit(nw, id, disabled) ==
    FilterRest(nw) # {} /\ id = nw.filter.id /\ disabled

FilterChecked(nw, id, disabled) ==
    IF FilterHit(nw, id, disabled) THEN FilterStepped(nw) ELSE FilterExhausted(nw)

RECURSIVE get_nodes_group_by_sender_node_id(_, _, _)
\* Network.get_nodes_group_by_sender_node_id assigned to self.nodes: the
\* list of the first group that holds the sender, None when no group does
get_nodes_group_by_sender_node_id(nw, sender_node_id, i) ==
    IF i > Len(nw.groups) THEN [nw EXCEPT !.bound = "none"]
    ELSE IF sender_node_id \in Range(nw.groups[i].v)
         THEN [nw EXCEPT !.bound = "group", !.group = nw.groups[i].k]
         ELSE get_nodes_group_by_sender_node_id(nw, sender_node_id, i + 1)

RECURSIVE GroupMembers(_, _)
\* the nodes of the groups from the i-th on, in the order the loops of
\* merge_all_groups meet them
GroupMembers(groups, i) ==
    IF i > Len(groups) THEN <<>> ELSE groups[i].v \o GroupMembers(groups, i + 1)

RECURSIVE MergeNodes(_, _, _)
\* merge_all_groups, the loop body: a node not in self.nodes is appended
MergeNodes(lst, members, i) ==
    IF i > Len(members) THEN lst
    ELSE MergeNodes(IF members[i] \in Range(lst) THEN lst ELSE Append(lst, members[i]),
                    members, i + 1)

RECURSIVE MergeIntoFilter(_, _, _)
\* merge_all_groups while self.nodes is a filter object: `node not in
\* self.nodes` takes items from the iterator, and append is no attribute of it
MergeIntoFilter(g, members, i) ==
    IF i > Len(members)
    THEN [g EXCEPT !.nw.has_groups = FALSE, !.nw.groups = <<>>,
                   !.nw.merge_groups_flag = FALSE]
    ELSE IF members[i] = g.nw.filter.id /\ FilterRest(g.nw) # {}
    THEN MergeIntoFilter([g EXCEPT !.nw = FilterStepped(g.nw)], members, i + 1)
    ELSE [g EXCEPT !.nw = FilterExhausted(g.nw), !.exc = "AttributeError"]

\* Network.merge_all_groups
merge_all_groups(g) ==
    IF g.exc # NoExc THEN g
    ELSE IF ~g.nw.has_groups THEN [g EXCEPT !.exc = "TypeError"]
    ELSE IF g.nw.bound = "filter"
         THEN MergeIntoFilter(g, GroupMembers(g.nw.groups, 1), 1)
    ELSE IF g.nw.bound = "none"
         THEN IF GroupMembers(g.nw.groups, 1) # <<>>
              THEN [g EXCEPT !.exc = "TypeError"]
              ELSE [g EXCEPT !.nw.has_groups = FALSE, !.nw.groups = <<>>,
                             !.nw.merge_groups_flag = FALSE]
         ELSE [g EXCEPT !.nw = [list |-> MergeNodes(NetNodes(g.nw), GroupMembers(g.nw.groups, 1), 1),
                                bound |-> "list", group |-> 0, filter |-> NoFilter,
                                has_groups |-> FALSE, groups |-> <<>>,
                                merge_groups_flag |-> FALSE]]

RECURSIVE RegisterInGroups(_, _, _, _)
\* register_node, the loop over group_ids
RegisterInGroups(g, node, group_ids, i) ==
    IF i > Len(group_ids) \/ g.exc # NoExc THEN g
    ELSE IF ~g.nw.has_groups THEN [g EXCEPT !.exc = "TypeError"]
    ELSE IF ~DictHas(g.nw.groups, group_ids[i]) THEN [g EXCEPT !.exc = "KeyError"]
    ELSE RegisterInGroups([g EXCEPT !.nw = AppendToGroup(g.nw, group_ids[i], node)],
                          node, group_ids, i + 1)

\* Network.register_node
register_node(g, node, group_ids) ==
    IF group_ids # <<>> THEN RegisterInGroups(g, node, group_ids, 1)
    ELSE IF g.nw.bound \in {"none", "filter"} THEN [g EXCEPT !.exc = "AttributeError"]
    ELSE [g EXCEPT !.nw = AppendNode(g.nw, node)]

\* Network.unregister_node: the loop over the groups assigns its filter to the
\* loop variable and changes no group; self.nodes becomes a filter object over
\* the list it named, which yields the nodes with the id of node_to_remove
\* (a network whose self.nodes is a filter object already is not unregistered
\* from: see UnregisterNode)
unregister_node(g, node_to_remove) ==
    IF g.exc # NoExc THEN g
    ELSE IF g.nw.bound = "none" THEN [g EXCEPT !.exc = "TypeError"]
    ELSE [g EXCEPT !.nw.bound = "filter",
                   !.nw.filter = [bound |-> g.nw.bound, group |-> g.nw.group,
                                  id |-> node_to_remove, pos |-> 0, done |-> FALSE]]

\* move_nodes_to_group and move_nodes_to_group_by_id, their first lines: an
\* absent or empty self.groups becomes a new dict, a missing group an empty list
WithGroup(nw, group_id) ==
    IF ~GroupsSet(nw)
    THEN [nw EXCEPT !.has_groups = TRUE, !.groups = <<[k |-> group_id, v |-> <<>>]>>]
    ELSE IF DictHas(nw.groups, group_id) THEN nw
    ELSE [nw EXCEPT !.groups = Append(nw.groups, [k |-> group_id, v |-> <<>>])]

RECURSIVE MoveLoop(_, _, _, _)
MoveLoop(nw, group_id, nodes_list, i) ==
    IF i > Len(nodes_list) THEN nw
    ELSE MoveLoop(AppendToGroup(nw, group_id, nodes_list[i]), group_id, nodes_list, i + 1)

\* Network.move_nodes_to_group
move_nodes_to_group(g, group_id, nodes_list) ==
    [g EXCEPT !.nw = MoveLoop(WithGroup(g.nw, group_id), group_id, nodes_list, 1)]

RECURSIVE MoveByIdLoop(_, _, _, _)
\* move_nodes_to_group_by_id, the loop: the node of each id is looked up in
\* self.nodes, and the first id not found there ends the call
MoveByIdLoop(g, group_id, nodes_list, i) ==
    IF i > Len(nodes_list) THEN g
    ELSE IF g.nw.bound = "none" THEN [g EXCEPT !.exc = "TypeError"]
    ELSE IF g.nw.bound = "filter"
    THEN IF nodes_list[i] = g.nw.filter.id /\ FilterRest(g.nw) # {}
         THEN MoveByIdLoop([g EXCEPT !.nw = AppendToGroup(FilterExhausted(g.nw), group_id,
                                                          nodes_list[i])],
                           group_id, nodes_list, i + 1)
         ELSE [g EXCEPT !.nw = FilterExhausted(g.nw)]
    ELSE IF nodes_list[i] \notin Range(NetNodes(g.nw)) THEN g
    ELSE MoveByIdLoop([g EXCEPT !.nw = AppendToGroup(g.nw, group_id, nodes_list[i])],
                      group_id, nodes_list, i + 1)

\* Network.move_nodes_to_group_by_id
move_nodes_to_group_by_id(g, group_id, nodes_list) ==
    MoveByIdLoop([g EXCEPT !.nw = WithGroup(g.nw, group_id)], group_id, nodes_list, 1)

\* check_node_input_transport_behaviour and check_node_output_transport_behaviour
\* over the list self.nodes names
GroupInputDisabled(nw, id) ==
    id \in Range(NetNodes(nw)) /\ nodes[id].behaviour.transport_node_disable_input

GroupOutputDisabled(nw, id) ==
    id \in Range(NetNodes(nw)) /\ nodes[id].behaviour.transport_node_disable_output

\* broadcast_block and broadcast_transaction, lines 16-20: the groups decide
\* the list self.nodes names
SelectNodes(g, sender_node_id) ==
    IF ~GroupsSet(g.nw) THEN g
    ELSE IF g.nw.merge_groups_flag THEN merge_all_groups(g)
    ELSE [g EXCEPT !.nw = get_nodes_group_by_sender_node_id(g.nw, sender_node_id, 1)]

RECURSIVE GroupBroadcastLoop(_, _, _)
\* the loop over self.nodes: it ends at the first node with disabled input
GroupBroadcastLoop(g, sender_node_id, i) ==
    IF i > Len(NetNodes(g.nw)) THEN g
    ELSE IF GroupInputDisabled(g.nw, NetNodes(g.nw)[i]) THEN g
    ELSE IF NetNodes(g.nw)[i] # sender_node_id
         THEN GroupBroadcastLoop([g EXCEPT !.received = Append(g.received, NetNodes(g.nw)[i])],
                                 sender_node_id, i + 1)
         ELSE GroupBroadcastLoop(g, sender_node_id, i + 1)

\* a broadcast or a direct message while self.nodes is a filter object: the
\* check of the sender's output takes the items of the iterator (all of them
\* unless it returns True), and the loop over self.nodes that follows a check
\* that returned False finds the iterator at its end
SendToFilter(g, sender_node_id) ==
    [g EXCEPT !.nw = FilterChecked(g.nw, sender_node_id,
                        nodes[sender_node_id].behaviour.transport_node_disable_output)]

\* broadcast_block and broadcast_transaction after the groups were looked at
SendToNodes(g, sender_node_id) ==
    IF g.exc # NoExc THEN g
    ELSE IF g.nw.bound = "none" THEN [g EXCEPT !.exc = "TypeError"]
    ELSE IF g.nw.bound = "filter" THEN SendToFilter(g, sender_node_id)
    ELSE IF GroupOutputDisabled(g.nw, sender_node_id) THEN g
    ELSE GroupBroadcastLoop(g, sender_node_id, 1)

RECURSIVE GroupDirectLoop(_, _, _)
\* direct_response_block_by_hash, the loop over self.nodes: the receiver's
\* handler is called for every entry of the list that is the receiver
GroupDirectLoop(g, receiver_node_id, i) ==
    IF i > Len(NetNodes(g.nw)) THEN g
    ELSE IF GroupInputDisabled(g.nw, receiver_node_id) THEN g
    ELSE IF NetNodes(g.nw)[i] = receiver_node_id
         THEN GroupDirectLoop([g EXCEPT !.received = Append(g.received, receiver_node_id)],
                              receiver_node_id, i + 1)
         ELSE GroupDirectLoop(g, receiver_node_id, i + 1)

\* a direct message after the groups were looked at
DirectToNodes(g, sender_node_id, receiver_node_id) ==
    IF g.exc # NoExc THEN g
    ELSE IF g.nw.bound = "none" THEN [g EXCEPT !.exc = "TypeError"]
    ELSE IF g.nw.bound = "filter" THEN SendToFilter(g, sender_node_id)
    ELSE IF GroupOutputDisabled(g.nw, sender_node_id) THEN g
    ELSE GroupDirectLoop(g, receiver_node_id, 1)

\* Network.direct_response_block_by_hash (get_block_by_hash and
\* direct_request_block_by_hash choose the receiver in the same way)
group_direct_message(g, sender_node_id, receiver_node_id) ==
    DirectToNodes(SelectNodes(g, sender_node_id), sender_node_id, receiver_node_id)

\* Network.broadcast_block / broadcast_transaction
group_broadcast(g, sender_node_id) ==
    SendToNodes(SelectNodes(g, sender_node_id), sender_node_id)

\* the nodes whose transport may be disabled
FaultyNetNodes == {1}

\* the behaviours of the nodes: all honest, or one node with its input or
\* its output disabled
GroupBehaviours ==
    {[i \in NetNodeIds |-> [node_id |-> i, behaviour |-> HonestBehaviour]]} \cup
    {[i \in NetNodeIds |->
        [node_id |-> i,
         behaviour |-> IF i = n
                       THEN [HonestBehaviour EXCEPT !.transport_node_disable_input = in,
                                                    !.transport_node_disable_output = ~in]
                       ELSE HonestBehaviour]] : n \in FaultyNetNodes, in \in BOOLEAN}

NoCall == [op |-> "none", sender |-> 0, before |-> NewGroupNetwork(<<>>), received |-> <<>>]

GroupsInit ==
    /\ nodes \in GroupBehaviours
    /\ net \in {NewGroupNetwork(<<>>), NewGroupNetwork(<<0, 1>>)}
    /\ validators = <<>>
    /\ now = GenesisTime
    /\ exc = NoExc
    /\ hist = [registered |-> {}, placed |-> {}, merged |-> FALSE, moves |-> 0, last |-> NoCall]

GroupState == [nw |-> net, exc |-> exc, received |-> <<>>]

GroupBecomes(g, h) ==
    /\ net' = g.nw
    /\ exc' = g.exc
    /\ hist' = h
    /\ UNCHANGED <<nodes, now, validators>>

\* the lists of group ids a node is registered with
GroupIdLists == {<<>>, <<0>>, <<1>>, <<0, 1>>}

\* the lists of nodes handed to move_nodes_to_group
NodeLists == {<<a>> : a \in NetNodeIds} \cup
             {l \in {<<a, b>> : a \in NetNodeIds, b \in NetNodeIds} : l[1] # l[2]}

\* the longest group after the call
LongestGroup(nw) ==
    SetMax({0} \cup {Len(nw.groups[i].v) : i \in DOMAIN nw.groups})

\* network.register_node(node, *group_ids), once for a node, with groups the
\* network was built with
RegisterNode(n) ==
    /\ exc = NoExc
    /\ n \notin hist.registered
    /\ \E group_ids \in GroupIdLists :
          /\ group_ids # <<>> => net.has_groups /\ Range(group_ids) \subseteq DictKeys(net.groups)
          /\ LongestGroup(register_node(GroupState, n, group_ids).nw) <= MaxGroupLen
          /\ GroupBecomes(register_node(GroupState, n, group_ids),
                [hist EXCEPT !.registered = @ \cup {n},
                             !.placed = IF group_ids # <<>> THEN @ \cup {n} ELSE @,
                             !.last = NoCall])

\* network.move_nodes_to_group(group_id, nodes_list) with registered nodes
MoveNodesToGroup ==
    /\ exc = NoExc
    /\ hist.moves < MaxMoves
    /\ \E group_id \in GroupIds, nodes_list \in NodeLists :
          /\ Range(nodes_list) \subseteq hist.registered
          /\ LongestGroup(move_nodes_to_group(GroupState, group_id, nodes_list).nw) <= MaxGroupLen
          /\ GroupBecomes(move_nodes_to_group(GroupState, group_id, nodes_list),
                [hist EXCEPT !.placed = @ \cup Range(nodes_list), !.merged = FALSE,
                             !.moves = @ + 1, !.last = NoCall])

\* network.move_nodes_to_group_by_id(group_id, nodes_list)
MoveNodesToGroupById ==
    /\ exc = NoExc
    /\ hist.moves < MaxMoves
    /\ \E group_id \in GroupIds, nodes_list \in NodeLists :
          /\ Range(nodes_list) \subseteq hist.registered
          /\ LongestGroup(move_nodes_to_group_by_id(GroupState, group_id, nodes_list).nw) <= MaxGroupLen
          /\ GroupBecomes(move_nodes_to_group_by_id(GroupState, group_id, nodes_list),
                [hist EXCEPT !.placed = @ \cup
                                {n \in NetNodeIds :
                                    \E i \in DOMAIN move_nodes_to_group_by_id(GroupState, group_id, nodes_list).nw.groups :
                                        n \in Range(move_nodes_to_group_by_id(GroupState, group_id, nodes_list).nw.groups[i].v)},
                             !.merged = FALSE,
                             !.moves = @ + 1, !.last = NoCall])

\* network.merge_all_groups() of a network that has groups
MergeAllGroups ==
    /\ exc = NoExc
    /\ net.has_groups
    /\ GroupBecomes(merge_all_groups(GroupState),
          [hist EXCEPT !.merged = TRUE,
                       !.last = [op |-> "merge", sender |-> 0, before |-> net, received |-> <<>>]])

\* a registered node broadcasts a block or a transaction
GroupBroadcast(n) ==
    /\ exc = NoExc
    /\ n \in hist.registered
    /\ GroupBecomes([group_broadcast(GroupState, n) EXCEPT !.received = <<>>],
          [hist EXCEPT !.last = [op |-> "broadcast", sender |-> n, before |-> net,
                                 received |-> group_broadcast(GroupState, n).received]])

NextGroups ==
    \/ \E n \in NetNodeIds : RegisterNode(n)
    \/ MoveNodesToGroup
    \/ MoveNodesToGroupById
    \/ MergeAllGroups
    \/ \E n \in NetNodeIds : GroupBroadcast(n)

SpecGroups == GroupsInit /\ [][NextGroups]_vars

\* ------------------------------------------------------------------------
\* The network with nodes registered, unregistered, and messages sent
\* ------------------------------------------------------------------------
UnregisterInit ==
    /\ nodes \in GroupBehaviours
    /\ net \in {NewGroupNetwork(<<>>), NewGroupNetwork(<<0, 1>>)}
    /\ validators = <<>>
    /\ now = GenesisTime
    /\ exc = NoExc
    /\ hist = [registered |-> {}, placed |-> {}, merged |-> FALSE, moves |-> 0,
               unregistered |-> {}, last |-> NoCall]

\* network.unregister_node(node) for a registered node, while self.nodes is
\* not the filter object of an earlier call
UnregisterNode(n) ==
    /\ exc = NoExc
    /\ n \in hist.registered \ hist.unregistered
    /\ net.bound # "filter"
    /\ GroupBecomes(unregister_node(GroupState, n),
          [hist EXCEPT !.unregistered = @ \cup {n}, !.last = NoCall])

\* a registered node sends a direct message to a registered node
GroupDirect(n, m) ==
    /\ exc = NoExc
    /\ n \in hist.registered
    /\ m \in hist.registered
    /\ n # m
    /\ GroupBecomes([group_direct_message(GroupState, n, m) EXCEPT !.received = <<>>],
          [hist EXCEPT !.last = [op |-> "direct", sender |-> n, before |-> net,
                                 received |-> group_direct_message(GroupState, n, m).received]])

NextUnregister ==
    \/ \E n \in NetNodeIds : RegisterNode(n)
    \/ \E n \in NetNodeIds : UnregisterNode(n)
    \/ \E n \in NetNodeIds : GroupBroadcast(n)
    \/ \E n, m \in NetNodeIds : GroupDirect(n, m)

SpecUnregister == UnregisterInit /\ [][NextUnregister]_vars

\* ------------------------------------------------------------------------
\* The commit/reveal pair (src/src/core/node/node.py, create_commit_reveal_pair;
\* src/transaction/commit_transactions.py). The primitives of the crypto
\* package are taken by their contracts: what is encrypted for a keypair is
\* recovered with that keypair only, a digest stands for what was digested
\* ------------------------------------------------------------------------
NumKeys == 3

NumRandoms == 4

\* the keypairs Private.generate can return, and the random values
KeyPairs == 1 .. NumKeys

RandomValues == 0 .. (NumRandoms - 1)

\* what decrypting with another key gives
Garbled == 0 - 1

\* private.publickey()
publickey(private) == [public_of |-> private]

\* private.encrypt(random_bytes, 32)[0]: encrypted under the public half
encrypt(message, private) == [sealed_for |-> publickey(private), message |-> message]

\* Private.decrypt(encrypted, key)
decrypt(encrypted, private) ==
    IF encrypted.sealed_for = publickey(private) THEN encrypted.message ELSE Garbled

\* Keys.to_bytes and Keys.from_bytes
Keys_to_bytes(key) == [bytes_of |-> key]

Keys_from_bytes(raw) == raw.bytes_of

\* node_private.sign(hash, 0)[0]
sign_hash(private, hash) == [signed |-> hash, by |-> private]

\* SHA256.new(data).digest()
SHA256(data) == [digest_of |-> data]

\* a CommitRandomTransaction() whose fields are not yet assigned
NewCommitRandomTransaction == [rand |-> <<>>, pubkey |-> <<>>, signature |-> <<>>]

\* CommitRandomTransaction.pack
commit_pack(tx) == <<tx.rand, tx.pubkey, tx.signature>>

\* CommitRandomTransaction.get_signing_hash
get_signing_hash(tx, epoch_hash) == SHA256(<<tx.rand, tx.pubkey, epoch_hash>>)

\* CommitRandomTransaction.get_reference_hash
get_reference_hash(tx) == SHA256(commit_pack(tx) \o <<tx.signature>>)

\* create_commit_reveal_pair, the reference taken before the commit is signed
pair_of_unsigned_commit(node_private, random_bytes, epoch_hash, private) ==
    [commit |-> [rand |-> <<encrypt(random_bytes, private)>>,
                 pubkey |-> <<Keys_to_bytes(publickey(node_private))>>,
                 signature |-> <<sign_hash(node_private,
                                    get_signing_hash(
                                       [NewCommitRandomTransaction EXCEPT
                                           !.rand = <<encrypt(random_bytes, private)>>,
                                           !.pubkey = <<Keys_to_bytes(publickey(node_private))>>],
                                       epoch_hash))>>],
     reveal |-> [commit_hash |-> get_reference_hash(
                                    [NewCommitRandomTransaction EXCEPT
                                        !.rand = <<encrypt(random_bytes, private)>>,
                                        !.pubkey = <<Keys_to_bytes(publickey(node_private))>>]),
                 key |-> Keys_to_bytes(private)]]

\* create_commit_reveal_pair, after commit.rand and commit.pubkey are assigned
pair_signed(node_private, epoch_hash, private, commit) ==
    [commit |-> [commit EXCEPT !.signature =
                    <<sign_hash(node_private, get_signing_hash(commit, epoch_hash))>>],
     private |-> private]

\* create_commit_reveal_pair, the reveal made for the signed commit
pair_revealed(r) ==
    [commit |-> r.commit,
     reveal |-> [commit_hash |-> get_reference_hash(r.commit),
                 key |-> Keys_to_bytes(r.private)]]

\* Node.create_commit_reveal_pair; private is what Private.generate() returns
pair_of_commit(node_private, random_bytes, epoch_hash, private) ==
    pair_revealed(
        pair_signed(node_private, epoch_hash, private,
            [NewCommitRandomTransaction EXCEPT
                !.rand = <<encrypt(random_bytes, private)>>,
                !.pubkey = <<Keys_to_bytes(publickey(node_private))>>]))

\* the arguments of one call and the key Private.generate() returns in it
PairInit ==
    /\ nodes = <<>>
    /\ net = [nodes |-> <<>>]
    /\ validators = <<>>
    /\ now = GenesisTime
    /\ exc = NoExc
    /\ hist \in {[node_private |-> k, random_bytes |-> r, epoch_hash |-> h, generated |-> g,
                  made |-> FALSE, commit |-> NewCommitRandomTransaction,
                  reveal |-> [commit_hash |-> SHA256(<<>>), key |-> Keys_to_bytes(g)],
                  revealed |-> FALSE, random |-> Garbled] :
                     k \in KeyPairs, r \in RandomValues,
                     h \in {get_hash(genesis_block), PhantomBlock}, g \in KeyPairs}

\* commit, reveal = create_commit_reveal_pair(node_private, random_bytes, epoch_hash)
CreatePair ==
    /\ ~hist.made
    /\ hist' = [hist EXCEPT
                  !.made = TRUE,
                  !.commit = pair_of_commit(hist.node_private, hist.random_bytes,
                                            hist.epoch_hash, hist.generated).commit,
                  !.reveal = pair_of_commit(hist.node_private, hist.random_bytes,
                                            hist.epoch_hash, hist.generated).reveal]
    /\ UNCHANGED <<nodes, net, now, exc, validators>>

\* the random of the commit is decrypted with the key the reveal carries
\* (src/tests/test_epoch.py 153-161)
RevealPair ==
    /\ hist.made
    /\ ~hist.revealed
    /\ hist' = [hist EXCEPT
                  !.revealed = TRUE,
                  !.random = decrypt(hist.commit.rand[1], Keys_from_bytes(hist.reveal.key))]
    /\ UNCHANGED <<nodes, net, now, exc, validators>>

NextPair ==
    \/ CreatePair
    \/ RevealPair

SpecPair == PairInit /\ [][NextPair]_vars

\* ------------------------------------------------------------------------
\* validate_gossip and the penalties of the signer, over dags and mempools
\* given at the start
\* ------------------------------------------------------------------------
\* two blocks of timeslot 1 over genesis
FirstBlock == Block(GenesisTime + BLOCK_TIME, <<get_hash(genesis_block)>>, <<>>)

ForkBlock == Block(GenesisTime + BLOCK_TIME + 1, <<get_hash(genesis_block)>>, <<>>)

\* the blocks a dag got for timeslot 1, in the order of their arrival: none,
\* one, two different ones, or one block delivered twice under two signatures
ArrivedBlocks ==
    {<<>>,
     <<SignedBlock(FirstBlock, 0)>>,
     <<SignedBlock(FirstBlock, 0), SignedBlock(ForkBlock, 0)>>,
     <<SignedBlock(FirstBlock, 0), SignedBlock(FirstBlock, 1)>>}

RECURSIVE DagOf(_, _)
\* the dag after add_signed_block of the blocks from the i-th on
DagOf(blocks, i) ==
    IF i = 0 THEN NewDag ELSE add_signed_block(DagOf(blocks, i - 1), 1, blocks[i])

\* the gossips a mempool can hold: by either validator, a negative gossip
\* about timeslot 1 or 2 and a positive gossip about either block
GossipsAbout ==
    <<NegativeGossipTransaction(0, GenesisTime + 2 * BLOCK_TIME, 1),
      NegativeGossipTransaction(1, GenesisTime + 2 * BLOCK_TIME, 1),
      NegativeGossipTransaction(0, GenesisTime + 2 * BLOCK_TIME, 2),
      PositiveGossipTransaction(0, GenesisTime + 2 * BLOCK_TIME, get_hash(FirstBlock)),
      PositiveGossipTransaction(1, GenesisTime + 2 * BLOCK_TIME, get_hash(FirstBlock)),
      PositiveGossipTransaction(0, GenesisTime + 2 * BLOCK_TIME, get_hash(ForkBlock)),
      PositiveGossipTransaction(1, GenesisTime + 2 * BLOCK_TIME, get_hash(ForkBlock))>>

\* the mempool after the gossips of a set were added in the order above
MempoolOf(gossips) ==
    LET Held(tx) == tx \in gossips
    IN  [NewMempool EXCEPT !.gossips = SelectSeq(GossipsAbout, Held)]

ValidateInit ==
    /\ validators = [signers_order |-> [i \in 0 .. get_duration |-> 0],
                     randomizers_order |-> [i \in 0 .. (get_duration - 1) |-> 0],
                     gossipers |-> NodeIds]
    /\ nodes \in {[i \in {0} |-> [NewNode(0, HonestBehaviour) EXCEPT
                                    !.dag = DagOf(blocks, Len(blocks)),
                                    !.mempool = MempoolOf(gossips)]] :
                     blocks \in ArrivedBlocks, gossips \in SUBSET Range(GossipsAbout)}
    /\ net = [nodes |-> <<0>>]
    /\ now = GenesisTime + 2 * BLOCK_TIME
    /\ exc = NoExc
    /\ hist = [validated |-> FALSE, result |-> <<>>, signing |-> FALSE, txs |-> <<>>,
               dag |-> NewDag, mempool |-> NewMempool]

\* Node.validate_gossip(self.dag, self.mempool)
ValidateGossip ==
    /\ ~hist.validated
    /\ ~hist.signing
    /\ hist' = [hist EXCEPT !.validated = TRUE,
                            !.result = validate_gossip(nodes[0].dag, nodes[0].mempool),
                            !.dag = nodes[0].dag, !.mempool = nodes[0].mempool]
    /\ UNCHANGED <<nodes, net, now, exc, validators>>

\* Node.get_system_transactions_for_signing of the round of the current timeslot
CollectForSigning ==
    /\ ~hist.signing
    /\ hist' = [hist EXCEPT
                  !.signing = TRUE,
                  !.txs = get_system_transactions_for_signing(
                             nodes[0],
                             get_round_by_block_number(
                                get_current_timeframe_block_number(now))).txs,
                  !.result = validate_gossip(nodes[0].dag, nodes[0].mempool),
                  !.dag = nodes[0].dag, !.mempool = nodes[0].mempool]
    /\ nodes' = [nodes EXCEPT ![0] =
                    get_system_transactions_for_signing(
                       nodes[0],
                       get_round_by_block_number(
                          get_current_timeframe_block_number(now))).node]
    /\ UNCHANGED <<net, now, exc, validators>>

NextValidate ==
    \/ ValidateGossip
    \/ CollectForSigning

SpecValidate == ValidateInit /\ [][NextValidate]_vars

\* ------------------------------------------------------------------------
\* Properties
\* ------------------------------------------------------------------------
InsertedLog == {hist.inserted[i] : i \in DOMAIN hist.inserted}

BufferedLog == {hist.buffered[i] : i \in DOMAIN hist.buffered}

TimeslotOf(sb) == get_block_number_from_timestamp(sb.block.timestamp)

\* C1: in every reachable state, every parent hash listed by a block stored in
\* a node's dag is itself a key of that dag's blocks_by_hash
C1_ParentsInDag ==
    \A n \in NodeIds :
        \A i \in DOMAIN nodes[n].dag.blocks_by_hash :
            \A p \in Range(nodes[n].dag.blocks_by_hash[i].v.block.prev_hashes) :
                InDag(nodes[n].dag, p)

\* a block that was buffered with a parent missing is in the receiver's dag
C1_OrphanFlushedIntoDag ==
    \E e \in BufferedLog :
        /\ e.missing # {}
        /\ InDag(nodes[e.node].dag, get_hash(e.sb.block))

\* C2: a received block is inserted into the dag only if its signature verifies
\* under one of the keys permitted to sign its timeslot
C2_InsertedOnlyIfPermittedSigner ==
    \A e \in InsertedLog : \E k \in e.permitted : verify_signature(e.sb, k)

\* the timeslot of the block lay at or beyond the end of the receiver's epoch
\* when the handler inserted it
OutOfEpochWhenInserted(e) ==
    TimeslotOf(e.sb) >= get_epoch_end_block_number(current_epoch(e.now))

\* C3: a received block whose timeslot lies at or beyond the end of the node's
\* current epoch is not inserted into the dag by the handler call
C3_OutOfEpochNotInserted ==
    \A e \in InsertedLog : ~OutOfEpochWhenInserted(e)

\* C4: an honest node signs at most one block per timeslot
C4_OneSignedBlockPerTimeslot ==
    \A i, j \in DOMAIN hist.signed :
        (/\ hist.signed[i].honest
         /\ hist.signed[i].node = hist.signed[j].node
         /\ hist.signed[i].number = hist.signed[j].number) => i = j

\* an honest node has signed in a timeslot and stepped again inside it
C4_SteppedAgainAfterSigning ==
    /\ hist.restepped
    /\ \E i \in DOMAIN hist.signed : hist.signed[i].honest

\* C5: an honest node emits at most one NegativeGossipTransaction for a given
\* timeslot number
C5_OneNegativeGossipPerTimeslot ==
    \A i, j \in DOMAIN hist.negative :
        (/\ hist.negative[i].honest
         /\ hist.negative[i].node = hist.negative[j].node
         /\ hist.negative[i].tx.number_of_block = hist.negative[j].tx.number_of_block)
            => i = j

\* an honest node has emitted a negative gossip and has stepped again inside
\* the timeslot it emitted it in
C5_SteppedAgainAfterGossip ==
    \E i \in DOMAIN hist.negative :
        LET e == hist.negative[i]
        IN  /\ e.honest
            /\ nodes[e.node].last_expected_timeslot
                   = get_block_number_from_timestamp(e.tx.timestamp)
            /\ nodes[e.node].tried_to_sign_current_block

\* the signature of the buffered block verifies under a key permitted for its
\* timeslot and its parents lie in earlier timeslots
ValidOrphan(e) ==
    /\ \E k \in e.permitted : verify_signature(e.sb, k)
    /\ \A p \in Range(e.sb.block.prev_hashes) :
          get_block_number_from_timestamp(p.timestamp) < TimeslotOf(e.sb)

\* the sender held the missing parents and the transport of both nodes worked
\* when the block was buffered
Fetchable(e) == e.missing # {} /\ e.sender_holds /\ e.transport_ok

InsertedBefore(n, h1, h2) ==
    \E i, j \in DOMAIN hist.inserted :
        /\ i < j
        /\ hist.inserted[i].node = n /\ get_hash(hist.inserted[i].sb.block) = h1
        /\ hist.inserted[j].node = n /\ get_hash(hist.inserted[j].sb.block) = h2

\* C6: a validly signed block X with an unknown parent P, received from a
\* sender that holds P over working transport, is buffered, P is requested from
\* the sender, P is inserted before X, and afterwards both are in
\* blocks_by_hash and the buffer is empty
C6_OrphanResolvedFromSender ==
    \A e \in BufferedLog :
        (exc = NoExc /\ ValidOrphan(e) /\ Fetchable(e)) =>
            /\ \A p \in e.missing :
                  /\ \E i \in DOMAIN hist.requests :
                        hist.requests[i] = [from |-> e.node, to |-> e.sender, hash |-> p]
                  /\ InDag(nodes[e.node].dag, p)
                  /\ InsertedBefore(e.node, p, get_hash(e.sb.block))
            /\ InDag(nodes[e.node].dag, get_hash(e.sb.block))
            /\ nodes[e.node].blocks_buffer = <<>>

\* a valid orphan whose parent the sender held was received over working
\* transport, and no handler has failed
C6_FetchableOrphanReceived ==
    /\ exc = NoExc
    /\ \E e \in BufferedLog : ValidOrphan(e) /\ Fetchable(e)

\* C7: a block placed in the buffer stays there for as long as one of its
\* parents is missing from the dag: it is neither discarded nor inserted
C7_OrphanStaysBuffered ==
    \A e \in BufferedLog :
        (\E p \in Range(e.sb.block.prev_hashes) : ~InDag(nodes[e.node].dag, p)) =>
            /\ e.sb \in Range(nodes[e.node].blocks_buffer)
            /\ ~InDag(nodes[e.node].dag, get_hash(e.sb.block))

\* the sender of the first block node n buffered with h among its missing parents
FirstReferrer(n, h) ==
    hist.buffered[CHOOSE i \in DOMAIN hist.buffered :
                     /\ hist.buffered[i].node = n /\ h \in hist.buffered[i].missing
                     /\ \A j \in DOMAIN hist.buffered :
                           (hist.buffered[j].node = n /\ h \in hist.buffered[j].missing)
                              => i <= j].sender

CountOf(Test(_), q) == Cardinality({i \in DOMAIN q : Test(q[i])})

C9_SignerMergesAllTops ==
    \A i \in DOMAIN hist.signed :
        LET e == hist.signed[i]
            tops == get_top_blocks_hashes(e.dag)
            prev == e.sb.block.prev_hashes
            Other(top) == top # prev[1]
        IN  (e.honest /\ Len(tops) > 1) =>
                /\ prev[1] \in Range(tops)
                /\ \A top \in Range(tops) :
                      ChainLength(e.dag, prev[1]) >= ChainLength(e.dag, top)
                /\ Tail(prev) = SelectSeq(tops, Other)
                /\ e.tops_after = <<get_hash(e.sb.block)>>

\* an honest node has signed a block while its dag had several tops, one of
\* them ending a longer chain than another
C9_SignedOverSeveralTops ==
    \E i \in DOMAIN hist.signed :
        LET e == hist.signed[i]
            tops == get_top_blocks_hashes(e.dag)
        IN  /\ e.honest
            /\ \E a, b \in Range(tops) :
                   ChainLength(e.dag, a) > ChainLength(e.dag, b)

\* the lists of two or more blocks the watcher holds for one signer and epoch
WatchedConflicts(cw) ==
    {cw.pubkeys_by_epochs[i].v : i \in {j \in DOMAIN cw.pubkeys_by_epochs :
                                          Cardinality(Range(cw.pubkeys_by_epochs[j].v)) > 1}}

\* C10: when the conflict watcher of an honest node holds two distinct blocks
\* of one signer and epoch, the next block the node signs carries a
\* PenaltyTransaction that cites the hashes of those blocks
C10_PenaltyForWatchedConflict ==
    \A i \in DOMAIN hist.signed :
        LET e == hist.signed[i]
        IN  e.honest =>
               \A c \in WatchedConflicts(e.watched) :
                   \/ \E j \in 1 .. (i - 1) :
                         /\ hist.signed[j].node = e.node
                         /\ c \in WatchedConflicts(hist.signed[j].watched)
                   \/ \E x \in DOMAIN e.sb.block.system_txs :
                         /\ e.sb.block.system_txs[x].kind = "Penalty"
                         /\ Range(c) \subseteq Range(e.sb.block.system_txs[x].conflicts)

\* the blocks a dag holds under a timeslot
BlocksAt(dag, number) ==
    IF has_block_number(dag, number) THEN DictGet(dag.blocks_by_number, number) ELSE <<>>

\* timeslot number of the dag holds exactly one block, whose only parent is the
\* one block of the timeslot before
ChainedAt(dag, number) ==
    /\ Len(BlocksAt(dag, number)) = 1
    /\ Len(BlocksAt(dag, number - 1)) = 1
    /\ BlocksAt(dag, number)[1].block.prev_hashes
          = <<get_hash(BlocksAt(dag, number - 1)[1].block)>>

\* C11: a single honest validator elected for every timeslot that steps in
\* every timeslot: once it has stepped in a timeslot, every timeslot from 1 to
\* that one holds exactly one block whose only parent is the block of the
\* timeslot before, and the dag has one top
C11_SoloChain ==
    (exc = NoExc /\ SoloStepped) =>
        /\ \A k \in 1 .. get_current_timeframe_block_number(now) :
              ChainedAt(nodes[0].dag, k)
        /\ Len(get_top_blocks_hashes(nodes[0].dag)) = 1

\* the validator has stepped in the last timeslot of its run, past the end of
\* the first era
C11_SoloRunComplete ==
    /\ exc = NoExc
    /\ SoloStepped
    /\ get_current_timeframe_block_number(now) = MaxSoloTimeslot
    /\ get_current_timeframe_block_number(now) > get_duration

\* node n makes its first step of a new timeslot
FirstTick(n) ==
    /\ nodes'[n].last_expected_timeslot # nodes[n].last_expected_timeslot
    /\ exc' = NoExc

\* the node is permitted to gossip about the timeslot under one of its epoch hashes
HoldsGossipPermission(n, number) ==
    \E i \in DOMAIN get_epoch_hashes(nodes[n]) :
        nodes[n].node_pubkey \in
            get_gossip_permission(validators, get_epoch_hashes(nodes[n])[i].v,
                                  convert_to_epoch_block_number(number))

\* C12 (as stated): in its first step of a new timeslot the node leaves
\* without an attempt to sign exactly when the previous timeslot is empty in
\* its dag and it holds the gossip permission for it; without the permission
\* the attempt to sign is made in that step
C12_WaitsOnlyWhenPermitted ==
    [][\A n \in NodeIds :
          FirstTick(n) =>
              (~nodes'[n].tried_to_sign_current_block
                  <=> /\ ~has_block_number(nodes[n].dag, nodes[n].last_expected_timeslot)
                      /\ HoldsGossipPermission(n, nodes[n].last_expected_timeslot))]_vars

\* C12 (amended): in its first step of a new timeslot the node leaves without
\* an attempt to sign exactly when the previous timeslot is empty in its dag,
\* with or without the gossip permission; the permission decides only whether
\* the negative gossip is sent
C12_WaitsWhenPreviousEmpty ==
    [][\A n \in NodeIds :
          FirstTick(n) =>
              /\ ~nodes'[n].tried_to_sign_current_block
                   <=> ~has_block_number(nodes[n].dag, nodes[n].last_expected_timeslot)
              /\ Len(hist'.negative) > Len(hist.negative)
                   <=> /\ ~has_block_number(nodes[n].dag, nodes[n].last_expected_timeslot)
                       /\ HoldsGossipPermission(n, nodes[n].last_expected_timeslot)]_vars

\* a node without the gossip permission has made its first step of a timeslot
\* whose previous timeslot is empty, and has not tried to sign
C12_UnpermittedNodeWaited ==
    \E n \in NodeIds :
        /\ exc = NoExc
        /\ n \notin validators.gossipers
        /\ nodes[n].last_expected_timeslot = get_current_timeframe_block_number(now)
        /\ nodes[n].last_expected_timeslot >= 1
        /\ ~has_block_number(nodes[n].dag, nodes[n].last_expected_timeslot - 1)
        /\ ~nodes[n].tried_to_sign_current_block
        /\ hist.negative = <<>>

\* C13: a node calls accept_tops_as_epoch_hashes at most once in an era, and
\* never while it handles a block or empties its orphan buffer (the runs stay
\* within the first era)
C13_AcceptedOncePerEra ==
    \A n \in NodeIds :
        /\ hist.accepted[n] <= 1
        /\ n \notin hist.accepted_on_block

\* C14: no handler ends with an uncaught error: whatever block, transaction
\* or request for a block a node is handed, no KeyError and no failed
\* assertion leaves handle_block_message, handle_transaction_message,
\* request_block_by_hash or direct_request_block_by_hash
C14_NoUncaughtError == exc = NoExc

\* no hash twice in a list of signed blocks
DistinctHashes(blocks) ==
    \A i, j \in DOMAIN blocks :
        get_hash(blocks[i].block) = get_hash(blocks[j].block) => i = j

\* C15: in every reachable state the timeslot index of every node holds each
\* block hash at most once under a timeslot, whatever blocks were delivered
\* and however often
C15_HashOncePerTimeslot ==
    \A n \in NodeIds :
        \A i \in DOMAIN nodes[n].dag.blocks_by_number :
            DistinctHashes(nodes[n].dag.blocks_by_number[i].v)

\* the list old is the beginning of the list new
IsPrefix(old, new) ==
    /\ Len(old) <= Len(new)
    /\ \A i \in DOMAIN old : new[i] = old[i]

\* every entry of the dict old is in the dict new at its place: under its hash
\* the same block (blocks_by_hash; the signature kept with it is that of the
\* last insertion), under its timeslot the same signed blocks and further ones
\* after them (blocks_by_number)
KeptByHash(old, new) ==
    /\ Len(old) <= Len(new)
    /\ \A i \in DOMAIN old : new[i].k = old[i].k /\ new[i].v.block = old[i].v.block

KeptByNumber(old, new) ==
    /\ Len(old) <= Len(new)
    /\ \A i \in DOMAIN old : new[i].k = old[i].k /\ IsPrefix(old[i].v, new[i].v)

\* C16: no step removes or reorders a stored block: after any operation every
\* block of every node is still under its hash and under its timeslot, in the
\* order it had, and an insertion under a timeslot that holds blocks appends
C16_BlocksKept ==
    [][\A n \in NodeIds :
          /\ KeptByHash(nodes[n].dag.blocks_by_hash, nodes'[n].dag.blocks_by_hash)
          /\ KeptByNumber(nodes[n].dag.blocks_by_number, nodes'[n].dag.blocks_by_number)]_vars

\* a block was added under a timeslot that held a block already, of another hash
C16_TimeslotHoldsSeveral ==
    \E n \in NodeIds :
        \E i \in DOMAIN nodes[n].dag.blocks_by_number :
            /\ Len(nodes[n].dag.blocks_by_number[i].v) >= 2
            /\ DistinctHashes(nodes[n].dag.blocks_by_number[i].v)
            /\ exc = NoExc

\* the stored hashes no stored block lists as a parent
Unreferenced(dag) ==
    {h \in DictKeys(dag.blocks_by_hash) :
        \A i \in DOMAIN dag.blocks_by_hash :
            h \notin Range(dag.blocks_by_hash[i].v.block.prev_hashes)}

\* C17: get_top_blocks returns exactly the stored blocks whose hash no stored
\* block lists as a parent, each once and as stored; it is never empty, and
\* for the dag that holds genesis alone it is genesis
C17_TopsAreUnreferenced ==
    /\ \A n \in NodeIds :
          /\ DictKeys(get_top_blocks(nodes[n].dag)) = Unreferenced(nodes[n].dag)
          /\ Len(get_top_blocks(nodes[n].dag)) = Cardinality(Unreferenced(nodes[n].dag))
          /\ Range(get_top_blocks(nodes[n].dag)) \subseteq Range(nodes[n].dag.blocks_by_hash)
          /\ get_top_blocks(nodes[n].dag) # <<>>
    /\ DictKeyList(get_top_blocks(NewDag)) = <<get_hash(genesis_block)>>

\* a dag with a block over two parents, and a dag with two tops
C17_MergedAndForked ==
    /\ exc = NoExc
    /\ \E n \in NodeIds :
          \E i \in DOMAIN nodes[n].dag.blocks_by_hash :
              Len(nodes[n].dag.blocks_by_hash[i].v.block.prev_hashes) >= 2
    /\ \E n \in NodeIds : Len(get_top_blocks(nodes[n].dag)) >= 2

\* the round of the timeslot at place p (from 0) of an era whose rounds follow
\* each other as COMMIT, REVEAL, PARTIAL, each for its duration
RoundAtPlace(p) ==
    IF p < COMMIT_DURATION THEN COMMIT
    ELSE IF p < COMMIT_DURATION + REVEAL_DURATION THEN REVEAL
    ELSE PARTIAL

\* C18: for a timeslot n >= 1, get_epoch_by_block_number(n) is the round n
\* falls in: the first COMMIT_DURATION timeslots of its era are COMMIT, the
\* next REVEAL_DURATION are REVEAL, the last PARTIAL_DURATION are PARTIAL
\* (era 1 beginning at timeslot 1)
C18_RoundOfTimeslot ==
    (hist.asked /\ hist.number >= 1) =>
        hist.epoch = RoundAtPlace((hist.number - 1) % get_era_duration)

\* C19: get_era_number gives era 0 to timeslot 0 and cuts the timeslots from 1
\* on into consecutive eras of get_era_duration timeslots each, era 1
\* beginning at timeslot 1
C19_ErasOfFullDuration ==
    hist.asked =>
        hist.era = IF hist.number = 0 THEN 0
                   ELSE (hist.number - 1) \div get_era_duration + 1

\* the insertions and the signings by which node n recorded a block of signer
\* p and epoch e in its conflict watcher (insert_verified_block, sign_block)
InsertedFor(n, key) ==
    {i \in DOMAIN hist.inserted :
        /\ hist.inserted[i].node = n
        /\ hist.inserted[i].allowed = key.p
        /\ get_epoch_number(TimeslotOf(hist.inserted[i].sb)) = key.e}

SignedFor(n, key) ==
    {i \in DOMAIN hist.signed :
        /\ hist.signed[i].node = n
        /\ nodes[n].node_pubkey = key.p
        /\ get_epoch_number(hist.signed[i].number) = key.e}

\* the hashes node n recorded for the signer and the epoch of key
RecordedFor(n, key) ==
    {get_hash(hist.inserted[i].sb.block) : i \in InsertedFor(n, key)}
        \cup {get_hash(hist.signed[i].sb.block) : i \in SignedFor(n, key)}

\* C20 (as stated): for a recorded hash h, get_conflicts_by_block returns the
\* other hashes recorded for the same signer in the same epoch, h left out,
\* and nothing when there is no other
C20_ConflictsAreTheOthers ==
    \A n \in NodeIds :
        \A h \in DictKeys(nodes[n].conflict_watcher.blocks) :
            Range(get_conflicts_by_block(nodes[n].conflict_watcher, h))
                = RecordedFor(n, DictGet(nodes[n].conflict_watcher.blocks, h)) \ {h}

\* C20 (amended): for a recorded hash h, get_conflicts_by_block returns every
\* hash recorded for the signer of h in the epoch of h, h itself among them
\* and each as often as it was recorded, when more than one recording was
\* made for that signer and epoch, and nothing when that of h is the only one
C20_ConflictsIncludeAsked ==
    \A n \in NodeIds :
        \A h \in DictKeys(nodes[n].conflict_watcher.blocks) :
            LET key == DictGet(nodes[n].conflict_watcher.blocks, h)
                conflicts == get_conflicts_by_block(nodes[n].conflict_watcher, h)
                recordings == Cardinality(InsertedFor(n, key)) + Cardinality(SignedFor(n, key))
            IN  IF recordings = 1
                THEN conflicts = <<>>
                ELSE /\ Len(conflicts) = recordings
                     /\ h \in Range(conflicts)
                     /\ Range(conflicts) = RecordedFor(n, key)

\* a watcher holds two different hashes of one signer in one epoch, and a
\* block of another signer beside them
C20_SignerWithTwoBlocks ==
    \E n \in NodeIds :
        LET d == nodes[n].conflict_watcher.pubkeys_by_epochs
        IN  /\ exc = NoExc
            /\ Len(d) >= 2
            /\ \E i \in DOMAIN d : Cardinality(Range(d[i].v)) >= 2

\* the timeslots the question in hist.found is about
FoundWindow ==
    get_block_number(hist.found.dag, hist.found.common_ancestor)
        .. SetMax({get_block_number(hist.found.dag, hist.found.tops[i]) :
                      i \in DOMAIN hist.found.tops})

\* the sets of two or more blocks of one signer in one epoch inside the window
FoundGroups ==
    LET d == hist.found.cw.pubkeys_by_epochs
        InWindow(i) == {h \in Range(d[i].v) : get_block_number(hist.found.dag, h) \in FoundWindow}
    IN  {InWindow(i) : i \in {j \in DOMAIN d : Cardinality(InWindow(j)) >= 2}}

\* C21: find_conflicts_in_between answers without an error and reports exactly
\* the groups of two or more different blocks of one signer in one epoch that
\* lie inside the window from the ancestor's timeslot to the latest top's:
\* every candidate group is such a group, listed once and holding each block
\* once, every explicit conflict belongs to such a group, and every such group
\* is reported
C21_ReportsTheEquivocations ==
    hist.found.asked =>
        LET r == hist.found.result
        IN  /\ r.exc = NoExc
            /\ \A i \in DOMAIN r.candidate_conflicts :
                  /\ Range(r.candidate_conflicts[i]) \in FoundGroups
                  /\ Len(r.candidate_conflicts[i])
                        = Cardinality(Range(r.candidate_conflicts[i]))
                  /\ \A j \in DOMAIN r.candidate_conflicts :
                        r.candidate_conflicts[i] = r.candidate_conflicts[j] => i = j
            /\ \A h \in Range(r.explicit_conflicts) : \E g \in FoundGroups : h \in g
            /\ \A g \in FoundGroups :
                  \/ \E i \in DOMAIN r.candidate_conflicts : Range(r.candidate_conflicts[i]) = g
                  \/ g \subseteq Range(r.explicit_conflicts)

\* how often the network handed msg of sender from to the node to
DeliveryCount(from, to, msg) ==
    Cardinality({i \in DOMAIN hist.delivered :
                    hist.delivered[i] = [from |-> from, to |-> to, msg |-> msg]})

\* how often from broadcast msg with its output enabled while the input of the
\* node to was enabled
DueCount(from, to, msg) ==
    Cardinality({i \in DOMAIN hist.broadcasts :
                    /\ hist.broadcasts[i].from = from
                    /\ hist.broadcasts[i].msg = msg
                    /\ hist.broadcasts[i].output
                    /\ to \in hist.broadcasts[i].inputs})

\* C22: a block or transaction broadcast by a node with its output enabled is
\* handed once to every other registered node whose input is enabled, wherever
\* the nodes with disabled input are registered, and to no other node
C22_BroadcastReachesEnabledNodes ==
    exc = NoExc =>
        \A i \in DOMAIN hist.broadcasts :
            \A to \in Range(net.nodes) :
                DeliveryCount(hist.broadcasts[i].from, to, hist.broadcasts[i].msg)
                    = IF to = hist.broadcasts[i].from THEN 0
                      ELSE DueCount(hist.broadcasts[i].from, to, hist.broadcasts[i].msg)

\* the blocks of node n's dag that carry the signature of key
SignedBy(n, key) ==
    {nodes[n].dag.blocks_by_hash[i].v :
        i \in {j \in DOMAIN nodes[n].dag.blocks_by_hash :
                  nodes[n].dag.blocks_by_hash[j].v.sig = key}}

\* node n was constructed with its transport output disabled
OutputDisabled(n) ==
    /\ nodes[n].behaviour.transport_node_disable_output
    /\ nodes[n].behaviour.transport_keep_offline = <<>>

\* C23: a node whose transport output is disabled signs and stores its own
\* block once it has made its attempt in a timeslot after the genesis one
\* that it is elected for, and
\* nothing of it reaches another node: the network hands over only messages
\* broadcast with the output enabled, and no other node holds a block signed by it
C23_SilentNodeSignsAlone ==
    exc = NoExc =>
        /\ \A n \in NodeIds :
              (/\ OutputDisabled(n)
               /\ get_current_timeframe_block_number(now) >= 1
               /\ nodes[n].last_expected_timeslot = get_current_timeframe_block_number(now)
               /\ nodes[n].tried_to_sign_current_block
               /\ get_sign_permission(validators, get_hash(genesis_block),
                     convert_to_epoch_block_number(get_current_timeframe_block_number(now)))
                    = nodes[n].node_pubkey)
              => \E sb \in SignedBy(n, nodes[n].node_pubkey) :
                    TimeslotOf(sb) = get_current_timeframe_block_number(now)
        /\ \A i \in DOMAIN hist.delivered :
              \E j \in DOMAIN hist.broadcasts :
                  /\ hist.broadcasts[j].from = hist.delivered[i].from
                  /\ hist.broadcasts[j].msg = hist.delivered[i].msg
                  /\ hist.broadcasts[j].output
        /\ \A n \in NodeIds : OutputDisabled(n) =>
              /\ \A i \in DOMAIN hist.delivered : hist.delivered[i].from # n
              /\ \A m \in NodeIds \ {n} : SignedBy(m, nodes[n].node_pubkey) = {}

\* a node with disabled output holds a block it signed, and has asked the
\* network to broadcast it
C23_SilentNodeSigned ==
    \E n \in NodeIds :
        /\ exc = NoExc
        /\ OutputDisabled(n)
        /\ \E sb \in SignedBy(n, nodes[n].node_pubkey) :
              /\ TimeslotOf(sb) >= 1
              /\ \E j \in DOMAIN hist.broadcasts :
                    /\ hist.broadcasts[j].from = n
                    /\ hist.broadcasts[j].msg = sb
                    /\ ~hist.broadcasts[j].output

\* the other members of every group of the network nw that holds the sender
GroupFellows(nw, sender) ==
    UNION {Range(nw.groups[i].v) :
              i \in {j \in DOMAIN nw.groups : sender \in Range(nw.groups[j].v)}} \ {sender}

\* the last call was a broadcast of a network partitioned into groups, all
\* nodes with their transport enabled
PartitionedBroadcast ==
    /\ hist.last.op = "broadcast"
    /\ GroupsSet(hist.last.before)
    /\ ~hist.last.before.merge_groups_flag
    /\ \A n \in NetNodeIds : nodes[n].behaviour = HonestBehaviour

\* C24: a broadcast of a network partitioned into groups is handed to
\* exactly the other members of every group the sender is in, each once
C24_BroadcastReachesOwnGroups ==
    (PartitionedBroadcast /\ exc = NoExc) =>
        /\ Range(hist.last.received) = GroupFellows(hist.last.before, hist.last.sender)
        /\ \A i, j \in DOMAIN hist.last.received :
              hist.last.received[i] = hist.last.received[j] => i = j

\* the nodes registered with the network or placed in one of its groups
KnownNodes == hist.registered \cup hist.placed

\* C25: after merge_all_groups self.nodes holds every node registered or
\* placed in a group exactly once and the groups are gone; a broadcast made
\* after the merge is handed to every other node known to the network
C25_MergeKeepsEveryNode ==
    exc = NoExc =>
        /\ hist.last.op = "merge" =>
              /\ net.bound = "list"
              /\ Range(NetNodes(net)) = KnownNodes
              /\ Len(NetNodes(net)) = Cardinality(KnownNodes)
              /\ ~net.has_groups
        /\ (/\ hist.last.op = "broadcast"
            /\ hist.merged
            /\ \A n \in NetNodeIds : nodes[n].behaviour = HonestBehaviour)
              => Range(hist.last.received) = KnownNodes \ {hist.last.sender}

\* the PublicKeyTransactions node n broadcast in era e (each with a new
\* keypair), as places of the log
PublishedIn(n, e) ==
    {i \in DOMAIN hist.published :
        /\ hist.published[i].node = n
        /\ get_epoch_number(hist.published[i].number) = e}

\* C26: a node of honest behaviour broadcasts at most one
\* PublicKeyTransaction in an era, however often it steps and however many
\* epoch hashes it holds
C26_OnePublicKeyPerEra ==
    \A n \in NodeIds :
        IsHonest(nodes[n].behaviour) =>
            \A e \in {get_epoch_number(hist.published[i].number) : i \in DOMAIN hist.published} :
                Cardinality(PublishedIn(n, e)) <= 1
\* the keypairs node n generated in era e and still holds
HeldFrom(n, e) ==
    {i \in PublishedIn(n, e) :
        hist.published[i].tx.generated_pubkey \in Range(nodes[n].epoch_private_keys)}

\* node n is a publisher of the PUBLIC round under one of its epoch hashes
IsPublisher(n) ==
    \E i \in DOMAIN get_epoch_hashes(nodes[n]) :
        nodes[n].node_pubkey \in
            Range(get_ordered_randomizers_pubkeys_for_round(
                     validators, get_epoch_hashes(nodes[n])[i].v, "PUBLIC"))

\* C27: in the PUBLIC round of an era a node holds no keypair it generated
\* in the era before, and a permitted publisher that has stepped in that
\* round has published a key generated in it
C27_FreshKeyEveryEra ==
    (/\ exc = NoExc
     /\ get_epoch_number(get_current_timeframe_block_number(now)) >= 2
     /\ get_round_by_block_number(get_current_timeframe_block_number(now)) = "PUBLIC")
    => \A n \in NodeIds :
          /\ HeldFrom(n, get_epoch_number(get_current_timeframe_block_number(now)) - 1) = {}
          /\ (/\ nodes[n].last_expected_timeslot = get_current_timeframe_block_number(now)
              /\ IsPublisher(n))
             => PublishedIn(n, get_epoch_number(get_current_timeframe_block_number(now))) # {}

\* the broadcasts of transactions of a kind made by node n, as places of the log
BroadcastsOf(n, kind) ==
    {i \in DOMAIN hist.broadcasts :
        /\ hist.broadcasts[i].from = n
        /\ "kind" \in DOMAIN hist.broadcasts[i].msg
        /\ hist.broadcasts[i].msg.kind = kind}

\* the broadcasts of the reveal that belongs to the commit broadcast at place i
RevealsOf(n, i) ==
    {j \in BroadcastsOf(n, "RevealRandom") :
        hist.broadcasts[j].msg.commit_hash = hist.broadcasts[i].msg}

\* the first timeslot of the REVEAL round of the era timeslot number is in
FirstRevealTimeslot(number) ==
    get_epoch_start_block_number(get_epoch_number(number)) + 3 * ROUND_DURATION

\* C28, as stated: a node broadcasts at most one CommitRandomTransaction for
\* an epoch hash
C28_OneCommitPerEpochHash ==
    exc = NoExc =>
        \A n \in NodeIds :
            \A i, j \in BroadcastsOf(n, "CommitRandom") :
                hist.broadcasts[i].msg.epoch_hash = hist.broadcasts[j].msg.epoch_hash
                    => i = j

\* C28: a node broadcasts at most one CommitRandomTransaction for an epoch
\* hash in an era; a reveal is broadcast once, after its commit; a node that has stepped
\* in the REVEAL round has broadcast the reveal of each of its commits in the
\* first timeslot of that round and holds no pending reveal
C28_CommitThenOneReveal ==
    exc = NoExc =>
        \A n \in NodeIds :
            /\ \A i, j \in BroadcastsOf(n, "CommitRandom") :
                  (/\ hist.broadcasts[i].msg.epoch_hash = hist.broadcasts[j].msg.epoch_hash
                   /\ get_epoch_number(hist.broadcasts[i].number)
                        = get_epoch_number(hist.broadcasts[j].number))
                      => i = j
            /\ \A j \in BroadcastsOf(n, "RevealRandom") :
                  \E i \in BroadcastsOf(n, "CommitRandom") :
                      i < j /\ RevealsOf(n, i) = {j}
            /\ get_round_by_block_number(nodes[n].last_expected_timeslot) = "REVEAL" =>
                  /\ nodes[n].reveals_to_send = <<>>
                  /\ \A i \in BroadcastsOf(n, "CommitRandom") :
                        \E j \in RevealsOf(n, i) :
                            hist.broadcasts[j].number
                                = FirstRevealTimeslot(hist.broadcasts[i].number)

\* a node has broadcast a commit and, in the REVEAL round, its reveal
C28_CommitRevealed ==
    \E n \in NodeIds :
        /\ exc = NoExc
        /\ nodes[n].reveals_to_send = <<>>
        /\ \E i \in BroadcastsOf(n, "CommitRandom") : RevealsOf(n, i) # {}
        /\ get_round_by_block_number(nodes[n].last_expected_timeslot) = "REVEAL"

ConflictingGossips(dag, mempool) ==
    {pair \in Range(mempool.gossips) \X Range(mempool.gossips) :
        /\ pair[1].kind = "PositiveGossip"
        /\ pair[2].kind = "NegativeGossip"
        /\ pair[1].pubkey = pair[2].pubkey
        /\ has_block_number(dag, pair[2].number_of_block)
        /\ \E sb \in Range(DictGet(dag.blocks_by_number, pair[2].number_of_block)) :
              get_hash(sb.block) = pair[1].block_hash}

\* how often a pair is in the result of validate_gossip
TimesReturned(result, pair) == Cardinality({i \in DOMAIN result : result[i] = pair})

\* the PenaltyGossipTransactions among the transactions collected for a block
PenaltiesIn(txs) == {i \in DOMAIN txs : txs[i].kind = "PenaltyGossip"}

\* C30: validate_gossip returns the pairs of a positive and a negative gossip
\* by one author about a block the dag holds under the timeslot the negative
\* names, each pair once and no other pair, and the signer forms one
\* PenaltyGossipTransaction for every pair returned
C30_OnePairPerConflict ==
    /\ (hist.validated \/ hist.signing) =>
          /\ Range(hist.result) = ConflictingGossips(hist.dag, hist.mempool)
          /\ \A pair \in ConflictingGossips(hist.dag, hist.mempool) :
                TimesReturned(hist.result, pair) = 1
    /\ hist.signing =>
          /\ Cardinality(PenaltiesIn(hist.txs)) = Len(hist.result)
          /\ \A pair \in Range(hist.result) :
                Cardinality({i \in PenaltiesIn(hist.txs) : hist.txs[i].conflicts = pair})
                    = TimesReturned(hist.result, pair)

\* the timeslots under which node n's dag stores the block with hash h
StoredAt(n, h) ==
    {k \in DictKeys(nodes[n].dag.blocks_by_number) :
        \E sb \in Range(DictGet(nodes[n].dag.blocks_by_number, k)) : get_hash(sb.block) = h}

\* the negative gossips by a validator the network has handed to node n
NegativesReceivedBy(n) ==
    {hist.delivered[j].msg : j \in
        {i \in DOMAIN hist.delivered :
            /\ hist.delivered[i].to = n
            /\ "kind" \in DOMAIN hist.delivered[i].msg
            /\ hist.delivered[i].msg.kind = "NegativeGossip"
            /\ hist.delivered[i].msg.pubkey \in NodeIds}}

\* node n has broadcast a negative gossip about timeslot k
EmittedNegative(n, k) ==
    \E i \in DOMAIN hist.negative :
        hist.negative[i].node = n /\ hist.negative[i].tx.number_of_block = k

\* C31: every positive gossip an honest node has broadcast answers a valid
\* negative gossip the node received about a timeslot under which the node
\* stores the block the positive gossip cites, and the node has broadcast no
\* negative gossip about that timeslot itself
C31_PositiveOnlyAnswersNegative ==
    \A i \in DOMAIN hist.positive :
        LET e == hist.positive[i]
        IN  IsHonest(nodes[e.node].behaviour) =>
                \E g \in NegativesReceivedBy(e.node) :
                    /\ g.number_of_block \in StoredAt(e.node, e.tx.block_hash)
                    /\ ~EmittedNegative(e.node, g.number_of_block)

\* C32: a node handed a valid positive gossip that cites a hash it does not
\* hold asks the sender of the gossip for the block, once, and holds the block
\* afterwards when the transport of both is enabled and it holds the block's
\* parents; a node that holds the cited block asks nobody; and no other node
\* that held the block before the request is changed by the answer
C32_PositiveGossipFetchesBlock ==
    \A i \in DOMAIN hist.cited :
        LET e == hist.cited[i]
        IN  /\ ~e.held =>
                  /\ e.fetched_after = e.fetched_before + 1
                  /\ hist.fetched[e.fetched_after]
                        = [from |-> e.node, to |-> e.sender, hash |-> e.hash]
                  /\ (e.transport_ok /\ e.parents_known) =>
                        InDag(nodes[e.node].dag, e.hash)
            /\ e.held => e.fetched_after = e.fetched_before
            /\ e.changed = {}

\* node n is the signer of the timeslot the clock is in, a timeslot after the
\* genesis one, and has stepped in it
SteppedAsSigner(n) ==
    /\ exc = NoExc
    /\ get_current_timeframe_block_number(now) >= 1
    /\ nodes[n].last_expected_timeslot = get_current_timeframe_block_number(now)
    /\ get_sign_permission(validators, get_hash(genesis_block),
          convert_to_epoch_block_number(get_current_timeframe_block_number(now)))
         = nodes[n].node_pubkey

\* node n holds a block of the current timeslot that carries its signature
HoldsOwnBlock(n) ==
    \E sb \in SignedBy(n, nodes[n].node_pubkey) :
        TimeslotOf(sb) = get_current_timeframe_block_number(now)

\* node n has left its first step of the current timeslot with a negative
\* gossip about the timeslot before
WaitedInTimeslot(n) ==
    \E i \in DOMAIN hist.negative :
        /\ hist.negative[i].node = n
        /\ hist.negative[i].tx.timestamp = now
        /\ hist.negative[i].tx.number_of_block < get_current_timeframe_block_number(now)

\* C33: an honest node that is the signer of the current timeslot and has left
\* its first step of the timeslot without an attempt to sign (the previous
\* timeslot was empty) keeps the attempt open, and once the attempt is marked
\* as made the node holds its signed block of the timeslot: the step after the
\* wait signs
C33_DeferredAttemptSigns ==
    \A n \in NodeIds :
        (SteppedAsSigner(n) /\ IsHonest(nodes[n].behaviour) /\ n \notin hist.misbehaved) =>
            /\ nodes[n].tried_to_sign_current_block => HoldsOwnBlock(n)
            /\ (WaitedInTimeslot(n) /\ ~HoldsOwnBlock(n)) =>
                  ~nodes[n].tried_to_sign_current_block

\* an honest signer waited in the first step of the timeslot and has signed
\* its block in a later step of the same timeslot
C33_SignedAfterWait ==
    \E n \in NodeIds :
        /\ SteppedAsSigner(n)
        /\ IsHonest(nodes[n].behaviour)
        /\ WaitedInTimeslot(n)
        /\ nodes[n].tried_to_sign_current_block
        /\ HoldsOwnBlock(n)

\* C34: every block a node's dag lists under timeslot n has a timestamp that
\* lies in timeslot n, (timestamp - genesis timestamp) \div BLOCK_TIME = n,
\* whether the node signed it or was handed it, in its timeslot or later
C34_StoredUnderOwnTimeslot ==
    \A n \in DOMAIN nodes :
        \A i \in DOMAIN nodes[n].dag.blocks_by_number :
            \A sb \in Range(nodes[n].dag.blocks_by_number[i].v) :
                TimeslotOf(sb) = nodes[n].dag.blocks_by_number[i].k

\* the places of the PrivateKeyTransactions in the block of a sign_block call
PrivateKeysIn(e) ==
    {k \in DOMAIN e.sb.block.system_txs : e.sb.block.system_txs[k].kind = "PrivateKey"}

\* C35: a block an honest node signs in the PRIVATE round while it holds a
\* private key carries exactly one PrivateKeyTransaction, with the first
\* (oldest) key of epoch_private_keys, and that key leaves the list; a block
\* signed in another round, or without a key held, carries none and leaves the
\* list alone; and no key is carried by two blocks of honest signers
C35_OldestKeyDisclosedOnce ==
    /\ \A i \in DOMAIN hist.signed :
          LET e == hist.signed[i]
          IN  e.honest =>
                IF get_round_by_block_number(e.number) = "PRIVATE" /\ e.keys # <<>>
                THEN /\ Cardinality(PrivateKeysIn(e)) = 1
                     /\ \A k \in PrivateKeysIn(e) :
                           e.sb.block.system_txs[k] = PrivateKeyTransaction(Head(e.keys))
                     /\ e.keys_after = Tail(e.keys)
                ELSE /\ PrivateKeysIn(e) = {}
                     /\ e.keys_after = e.keys
    /\ \A i, j \in DOMAIN hist.signed :
          (hist.signed[i].honest /\ hist.signed[j].honest /\ i # j) =>
              \A a \in PrivateKeysIn(hist.signed[i]), b \in PrivateKeysIn(hist.signed[j]) :
                  hist.signed[i].sb.block.system_txs[a].key
                      # hist.signed[j].sb.block.system_txs[b].key

\* an honest node that held two private keys has signed both blocks of the
\* PRIVATE round, the first with the older key and the second with the newer
C35_TwoKeysDisclosedInTurn ==
    \E i, j \in DOMAIN hist.signed :
        /\ i < j
        /\ hist.signed[i].honest /\ hist.signed[j].honest
        /\ Len(hist.signed[i].keys) = 2
        /\ PrivateKeysIn(hist.signed[i]) # {}
        /\ PrivateKeysIn(hist.signed[j]) # {}
        /\ hist.signed[j].keys_after = <<>>

\* C36: find_conflicts_in_between ends without an error for the tops of a dag
\* and any of their common ancestors, the genesis block and windows with an
\* empty timeslot included
C36_FindConflictsCompletes ==
    hist.found.asked => hist.found.result.exc = NoExc


\* C37: a validator with only one distinct block in an epoch is never reported
\* as conflicting: when every hash a node's watcher holds for the signer and
\* epoch of a recorded block h is h itself, get_conflicts_by_block(h) returns
\* nothing, also after h was delivered and inserted more than once
C37_SingleBlockNeverConflicting ==
    \A n \in DOMAIN nodes :
        \A h \in DictKeys(nodes[n].conflict_watcher.blocks) :
            LET cw == nodes[n].conflict_watcher
                key == DictGet(cw.blocks, h)
            IN  Range(DictGet(cw.pubkeys_by_epochs, key)) = {h}
                    => get_conflicts_by_block(cw, h) = <<>>


RECURSIVE StakeChain(_, _)
\* the signed blocks of the chain that ends at h, over the first parent link,
\* genesis first
StakeChain(dag, h) ==
    LET sb == DictGet(dag.blocks_by_hash, h)
    IN  (IF sb.block.prev_hashes = <<>> THEN <<>>
         ELSE StakeChain(dag, sb.block.prev_hashes[1])) \o <<sb>>

\* the blocks of the chain that ends at h in the get_duration most recent
\* timeslots, genesis left out, earlier blocks first
RecentStakeBlocks(dag, h) ==
    LET Recent(sb) ==
            /\ get_block_number(dag, get_hash(sb.block)) >= 1
            /\ get_block_number(dag, get_hash(sb.block))
                  > get_block_number(dag, h) - get_duration
    IN  SelectSeq(StakeChain(dag, h), Recent)

\* C38: get_stake_actions(epoch_hash) returns exactly the StakeHold,
\* StakeRelease and Penalty transactions of the blocks in the at most
\* era-length most recent timeslots of the chain ending at epoch_hash, genesis
\* excluded, transactions of earlier blocks first and, within one block, in
\* the order the block lists them
C38_StakeActionsInChainOrder ==
    hist.asked =>
        LET blocks == RecentStakeBlocks(nodes[0].dag, hist.epoch_hash)
        IN  hist.result
               = Flatten([i \in DOMAIN blocks |->
                             SelectSeq(blocks[i].block.system_txs, IsStakeAction)])


RECURSIVE ReachableBlocks(_, _)
\* the blocks of the dag reachable from hash h over the parent links, h's own
\* block among them
ReachableBlocks(dag, h) ==
    LET block == DictGet(dag.blocks_by_hash, h)
    IN  IF "prev_hashes" \notin DOMAIN block THEN {block}
        ELSE {block} \cup UNION {ReachableBlocks(dag, block.prev_hashes[i]) :
                                    i \in DOMAIN block.prev_hashes}

\* the commit transactions of the blocks reachable from the top the k-th
\* CommitsSet was built for
CommitsBelow(k) ==
    UNION {{b.system_txs[i] : i \in {j \in DOMAIN b.system_txs :
                                        b.system_txs[j].kind = "CommitRandom"}} :
              b \in {r \in ReachableBlocks(nodes[hist.sets[k].dag].dag, hist.sets[k].top) :
                        "system_txs" \in DOMAIN r}}

\* C39: a CommitsSet built for top block T contains only the commit
\* transactions of blocks reachable from T: it starts without entries
\* collected by a set built before it, and a set built after it for another
\* top or another dag adds no entry to it
C39_CommitsSetHoldsOwnCommits ==
    \A k \in DOMAIN hist.sets :
        /\ hist.sets[k].found = <<>>
        /\ {hist.class.transactions_by_hash[i].v : i \in DOMAIN hist.class.transactions_by_hash}
              \subseteq CommitsBelow(k)

\* the network of hist.last.before with self.nodes naming the list it named
\* before unregister_node replaced it by a filter object
Unfiltered(nw) ==
    IF nw.bound = "filter"
    THEN [nw EXCEPT !.bound = nw.filter.bound, !.group = nw.filter.group]
    ELSE nw

\* the receivers of the broadcast of hist.last, had no node been unregistered
ReceiversBefore ==
    group_broadcast([nw |-> Unfiltered(hist.last.before), exc |-> NoExc, received |-> <<>>],
                    hist.last.sender).received

\* C40: after unregister_node(n), node n receives no further broadcast and
\* no direct message, and a broadcast reaches every other registered node as
\* it did before: its receivers are those of the same broadcast in the network
\* without the unregistration, the unregistered nodes left out
C40_UnregisteredReceivesNothing ==
    LET Registered(n) == n \notin hist.unregistered
    IN  hist.last.op \in {"broadcast", "direct"} =>
           /\ Range(hist.last.received) \cap hist.unregistered = {}
           /\ (hist.last.op = "broadcast" /\ hist.last.sender \notin hist.unregistered) =>
                  hist.last.received = SelectSeq(ReceiversBefore, Registered)

====
